---- MODULE Spec2Model ----
(***************************************************************************)
(* libsyspower (src/lib/core.c): the process-wide state of the library and *)
(* its public operations, one action per public function.  The kernel      *)
(* interfaces the library talks to (sysfs pseudo-files, /dev/rtc, libudev) *)
(* are the environment: every system call the code issues may fail, and    *)
(* the outcome is drawn with \E.                                           *)
(*                                                                         *)
(* The library has five independent groups of state.  Each group has its   *)
(* own specification (SpecMon, SpecWake, SpecSleep, SpecRtc, SpecSupply)   *)
(* in which the other groups stay in their initial state.                  *)
(***************************************************************************)
EXTENDS Integers, Sequences, FiniteSets

\* errno values used by the library (asm-generic/errno-base.h, errno.h)
ENOENT  == 2
EIO     == 5
EAGAIN  == 11
EINVAL  == 22
ENOTSUP == 95

NULL == 0

(***************************************************************************)
(* State                                                                   *)
(***************************************************************************)

\* power-supply monitor (core.c:38)
VARIABLES
    udevmon,    \* static struct udev_monitor *udevmon: NULL or a monitor
    monRef,     \* libudev: reference count of each monitor (0: not allocated, or freed)
    udevRef,    \* libudev: reference count of the udev context of each monitor
    monNew,     \* number of monitors created so far
    monHeld,    \* per monitor, the descriptors handed out by get and not yet put
    monFilter,  \* libudev: per monitor, the subsystem its filter matches ("": none)
    monOp,      \* the last public call: <<name, fd argument>>
    monRet,     \* its return value
    monRecv     \* the monitor the last read received from (NULL: none)

monVars == <<udevmon, monRef, udevRef, monNew, monHeld, monFilter, monOp, monRet, monRecv>>

\* device tree and wakeup-source cache (core.c:42-55)
VARIABLES
    drvLink,        \* per directory: it holds a symbolic link named "driver"
    wakeAttr,       \* per directory: power/wakeup is Absent, "enabled" or "disabled"
    wakeup_cache,   \* syspower.wakeup_cache: slot 0..WAKEDEV_COUNT-1 -> NULL or entry
    wakeOp,         \* the last public call: <<name, argument, ...>>
    wakeRet,        \* its return value, when that is an int or a bool
    wakeName,       \* its return value, when that is a string ("NULL": NULL)
    wakeScanned,    \* the last call ran __wakeup_cache_update
    wakeCb,         \* the paths its scan called __syspower_new_device with, in order
    wakeOpens,      \* attribute files the last call opened: [rd, wr] sets of directories
    wakeNullDeref,  \* the last call applied -> to an empty slot
    wakeOob,        \* the last call read a slot outside the table
    crashed         \* the process was killed by a fault

wakeVars == <<drvLink, wakeAttr, wakeup_cache, wakeOp, wakeRet, wakeName, wakeScanned,
              wakeCb, wakeOpens, wakeNullDeref, wakeOob, crashed>>

\* sleep control files (core.c:31-34, 47-55)
VARIABLES
    syspower_fd,    \* syspower.fd_*: the descriptor kept for each control file (0 at start)
    errno,          \* the C library's errno
    openFds,        \* the descriptors open in the process
    pmFiles,        \* the control files this kernel provides
    autosleep,      \* the kernel's autosleep state, as /sys/power/autosleep shows it
    sleepOp,        \* the last public call: <<name, argument>>
    sleepRet,       \* its return value
    sleepPrev,      \* the call before it: <<name, argument, return value>>
    sleepOpened,    \* the control files the last call opened
    sleepWrite      \* the write(2) the last call issued: [file, buf, len, out]

sleepVars == <<syspower_fd, errno, openFds, pmFiles, autosleep, sleepOp, sleepRet,
               sleepPrev, sleepOpened, sleepWrite>>

\* real-time clock (core.c:36, 52)
VARIABLES
    fd_rtc,     \* syspower.fd_rtc
    rtcNow,     \* the time the clock shows: [tm_hour, tm_min, tm_sec]
    rtcAlarm,   \* the alarm time programmed in the clock
    rtcAie,     \* the alarm interrupt is enabled
    rtcOp,      \* the last public call: <<name, seconds, wait>>
    rtcRet,     \* its return value
    rtcRead     \* the read(2) calls it issued on the clock: [outs, calls]

rtcVars == <<fd_rtc, rtcNow, rtcAlarm, rtcAie, rtcOp, rtcRet, rtcRead>>

\* a power supply under /sys/class/power_supply (core.c:37)
VARIABLES
    supplyAttr,  \* per attribute file of the supply: NoValue (absent) or the number it holds
    supplyOp,    \* the last public call: <<name, errno of its read(2) or 0>>
    supplyRet    \* its return value

supplyVars == <<supplyAttr, supplyOp, supplyRet>>

\* wake locks (core.c:32-33, 48-49)
VARIABLES
    lock_fd,     \* syspower.fd_lock, syspower.fd_unlock: per file, the descriptor kept
    lockOp,      \* the last public call: <<name, lock name, timeout_ms>>
    lockRet,     \* its return value
    lockWrite    \* the write(2) it issued: [file, buf, len, out]

lockVars == <<lock_fd, lockOp, lockRet, lockWrite>>

\* wakeup reason (core.c:35, 234-262)
VARIABLES
    irqFile,     \* /sys/power/pm_wakeup_irq: NoValue (absent) or the IRQ number it shows
    irqActions,  \* /sys/kernel/irq/<n>/actions, per n: NoFile or its text
    reasonOp,    \* the last public call: <<name, reason_len, the system call that failed>>
    reasonRet,   \* its return value
    reasonBuf    \* the caller's buffer `reason` after it

reasonVars == <<irqFile, irqActions, reasonOp, reasonRet, reasonBuf>>

\* two threads of one process inside the library (no lock in core.c)
VARIABLES
    pc,     \* per thread: "idle", or the statement of the call it is at
    loc,    \* per thread: the arguments and local variables of its call
    hist    \* what has happened so far: calls overlapped, reads and updates went wrong

thrVars == <<pc, loc, hist>>

\* one retry loop (core.c:64-99), a system call at a time
VARIABLES
    retryPc,    \* "idle", "call" (inside the do-while), "done" (the macro has returned)
    retry,      \* the loop: [macro, err, calls, outs, ret]
    signals     \* the signals still to be delivered to the thread during it

retryVars == <<retryPc, retry, signals>>

\* the groups of the later sections
laterVars == <<lockVars, reasonVars, thrVars, retryVars>>

\* every group but the one named
exceptMon    == <<wakeVars, sleepVars, rtcVars, supplyVars, laterVars>>
exceptWake   == <<monVars, sleepVars, rtcVars, supplyVars, laterVars>>
exceptSleep  == <<monVars, wakeVars, rtcVars, supplyVars, laterVars>>
exceptRtc    == <<monVars, wakeVars, sleepVars, supplyVars, laterVars>>
exceptSupply == <<monVars, wakeVars, sleepVars, rtcVars, laterVars>>

vars == <<monVars, wakeVars, sleepVars, rtcVars, supplyVars, laterVars>>

(***************************************************************************)
(* 1. Power-supply monitor (core.c:38, 695-738)                            *)
(***************************************************************************)

\* udev monitors the process may create over the run
MaxMon == 3
\* descriptors the callers may hold at one time
MaxHeld == 3

Monitors == 1..MaxMon

\* udev_monitor_get_fd: the netlink socket of the monitor; one socket per monitor
FdBase == 3
udev_monitor_get_fd(m) == IF m = NULL THEN -EINVAL ELSE FdBase + m
MonOfFd(fd) == fd - FdBase

InitMon ==
    /\ udevmon = NULL
    /\ monRef = [m \in Monitors |-> 0]
    /\ udevRef = [m \in Monitors |-> 0]
    /\ monNew = 0
    /\ monHeld = [m \in Monitors |-> 0]
    /\ monFilter = [m \in Monitors |-> ""]
    /\ monOp = <<"none", 0>>
    /\ monRet = 0
    /\ monRecv = NULL

RECURSIVE SumTo(_, _)
SumTo(f, n) == IF n = 0 THEN 0 ELSE f[n] + SumTo(f, n - 1)

\* descriptors handed out by get and not yet put back
HeldTotal == SumTo(monHeld, MaxMon)

\* the monitors whose socket is open
MonOpen(m) == monRef[m] > 0

\* the descriptors a caller can pass: one it was given, or a negative one
CallerFds == {-1} \cup {udev_monitor_get_fd(m) : m \in {k \in Monitors : monHeld[k] > 0}}

\* the descriptors a caller can pass to a read: those, one that was never the
\* monitor's (stdin), and any that a get has ever returned, put back or not
ReadFds == CallerFds \cup {0} \cup {udev_monitor_get_fd(m) : m \in 1..monNew}

\* syspower_supply_get_monitorfd
\* udev_monitor_ref returns its argument, udev_ref likewise.
\* syspower_supply_get_monitorfd_reuse is the variant that, finding udevmon
\* NULL, takes a reference on the last monitor created instead of a new one.
syspower_supply_get_monitorfd_reuse ==
    /\ HeldTotal < MaxHeld
    /\ IF udevmon # NULL \/ monNew > 0
       THEN LET m == IF udevmon # NULL THEN udevmon ELSE monNew
            IN  /\ udevRef' = [udevRef EXCEPT ![m] = @ + 1]
                /\ monRef' = [monRef EXCEPT ![m] = @ + 1]
                /\ udevmon' = m
                /\ monNew' = monNew
                /\ monFilter' = monFilter
       ELSE /\ monNew < MaxMon
            /\ monNew' = monNew + 1
            /\ udevRef' = [udevRef EXCEPT ![monNew + 1] = 1]
            /\ monRef' = [monRef EXCEPT ![monNew + 1] = 1]
            /\ udevmon' = monNew + 1
            /\ monFilter' = [monFilter EXCEPT ![monNew + 1] = "power_supply"]
    /\ monRet' = udev_monitor_get_fd(udevmon')
    /\ monHeld' = [monHeld EXCEPT ![udevmon'] = @ + 1]
    /\ monOp' = <<"get", 0>>
    /\ monRecv' = NULL
    /\ UNCHANGED exceptMon

syspower_supply_get_monitorfd ==
    /\ HeldTotal < MaxHeld
    /\ IF udevmon # NULL
       THEN /\ udevRef' = [udevRef EXCEPT ![udevmon] = @ + 1]
            /\ monRef' = [monRef EXCEPT ![udevmon] = @ + 1]
            /\ udevmon' = udevmon
            /\ monNew' = monNew
            /\ monFilter' = monFilter
       ELSE /\ monNew < MaxMon
            /\ monNew' = monNew + 1
            /\ udevRef' = [udevRef EXCEPT ![monNew + 1] = 1]
            /\ monRef' = [monRef EXCEPT ![monNew + 1] = 1]
            /\ udevmon' = monNew + 1
            /\ monFilter' = [monFilter EXCEPT ![monNew + 1] = "power_supply"]
    /\ monRet' = udev_monitor_get_fd(udevmon')
    /\ monHeld' = [monHeld EXCEPT ![udevmon'] = @ + 1]
    /\ monOp' = <<"get", 0>>
    /\ monRecv' = NULL
    /\ UNCHANGED exceptMon

\* syspower_supply_read_monitorfd
\* udev_monitor_receive_device returns a device, or NULL with errno set when
\* nothing is pending.
syspower_supply_read_monitorfd(fd) ==
    /\ monOp' = <<"read", fd>>
    /\ IF fd < 0 \/ udevmon = NULL
       THEN /\ monRet' = -EINVAL
            /\ monRecv' = NULL
       ELSE /\ monRecv' = udevmon
            /\ \E dev \in {NULL, 1} :
                 monRet' = IF dev = NULL THEN -EAGAIN ELSE 0
    /\ UNCHANGED <<udevmon, monRef, udevRef, monNew, monHeld, monFilter>>
    /\ UNCHANGED exceptMon

\* syspower_supply_put_monitorfd
\* udev_monitor_get_udev(NULL) is NULL, udev_unref(NULL) does nothing;
\* udev_monitor_unref drops one reference, frees the monitor when it was the
\* last, and always returns NULL.
syspower_supply_put_monitorfd(fd) ==
    /\ monOp' = <<"put", fd>>
    /\ monRet' = 0
    /\ monRecv' = NULL
    /\ IF fd < 0
       THEN UNCHANGED <<udevmon, monRef, udevRef, monNew, monHeld, monFilter>>
       ELSE /\ monHeld' = [monHeld EXCEPT ![MonOfFd(fd)] = @ - 1]
            /\ monNew' = monNew
            /\ monFilter' = monFilter
            /\ IF udevmon = NULL
               THEN UNCHANGED <<monRef, udevRef>>
               ELSE /\ udevRef' = [udevRef EXCEPT ![udevmon] = @ - 1]
                    /\ monRef' = [monRef EXCEPT ![udevmon] = @ - 1]
            /\ udevmon' = NULL
    /\ UNCHANGED exceptMon

NextMon ==
    \/ syspower_supply_get_monitorfd
    \/ \E fd \in ReadFds : syspower_supply_read_monitorfd(fd)
    \/ \E fd \in CallerFds : syspower_supply_put_monitorfd(fd)

\* C1: monitor reference counting.  While a caller still holds a descriptor
\* obtained from get (more gets than puts), the library still has its monitor
\* open and a read on that descriptor receives from it; once every get has been
\* matched by a put, no monitor is left open.
C1_RefCounted ==
    /\ HeldTotal > 0 =>
         /\ udevmon # NULL
         /\ MonOpen(udevmon)
         /\ monHeld[udevmon] = HeldTotal
    /\ (monOp[1] = "read" /\ monOp[2] >= 0) => monRet # -EINVAL
    /\ HeldTotal = 0 => \A m \in Monitors : ~MonOpen(m)

\* C25: syspower_supply_read_monitorfd returns -EINVAL and receives from no
\* monitor whenever its fd is negative or the library has no monitor open:
\* none created yet, or every descriptor handed out put back.  And a
\* syspower_supply_get_monitorfd called when every descriptor has been put back
\* makes a new monitor, with one reference and its filter on the subsystem
\* "power_supply", and returns the descriptor of that one, never one of a
\* monitor made before.
C25_MonitorLifecycle ==
    [][/\ (/\ monOp'[1] = "read"
           /\ \/ monOp'[2] < 0
              \/ HeldTotal = 0
              \/ \A m \in Monitors : ~MonOpen(m))
          => (monRet' = -EINVAL /\ monRecv' = NULL)
       /\ (monOp'[1] = "get" /\ HeldTotal = 0)
          => /\ udevmon' \in Monitors
             /\ udevmon' > monNew
             /\ monRef[udevmon'] = 0
             /\ monRef'[udevmon'] = 1
             /\ monFilter[udevmon'] = ""
             /\ monFilter'[udevmon'] = "power_supply"
             /\ monRet' = udev_monitor_get_fd(udevmon')
             /\ \A m \in 1..monNew : monRet' # udev_monitor_get_fd(m)]_vars

\* two monitors made one after the other, each by a get that found no
\* descriptor out, both put back; then a read on the descriptor of the first,
\* which returned -EINVAL
C25_Witness ==
    /\ monOp = <<"read", udev_monitor_get_fd(1)>>
    /\ monRet = -EINVAL
    /\ monRecv = NULL
    /\ monNew = 2
    /\ HeldTotal = 0
    /\ \A m \in Monitors : ~MonOpen(m)
    /\ monFilter[1] = "power_supply"
    /\ monFilter[2] = "power_supply"

(***************************************************************************)
(* 2. Attribute I/O (core.c:279-324) and C strings                         *)
(***************************************************************************)

\* A char buffer is a sequence of one-character strings; NUL is the terminator.
NUL == "NUL"
NL  == "\n"

S_enabled  == <<"e", "n", "a", "b", "l", "e", "d">>
S_disabled == <<"d", "i", "s", "a", "b", "l", "e", "d">>

\* char buf[size] = "str": the string, then zero bytes
CharArray(str, size) == [i \in 1..size |-> IF i <= Len(str) THEN str[i] ELSE NUL]

\* the C string a buffer holds: the bytes before the first NUL
RECURSIVE CStrFrom(_, _)
CStrFrom(buf, i) ==
    IF i > Len(buf) \/ buf[i] = NUL THEN <<>> ELSE <<buf[i]>> \o CStrFrom(buf, i + 1)
CStr(buf) == CStrFrom(buf, 1)

Min(a, b) == IF a <= b THEN a ELSE b

\* strncmp(a, b, n) == 0 on two C strings
strncmp_eq(a, b, n) == SubSeq(a, 1, Min(n, Len(a))) = SubSeq(b, 1, Min(n, Len(b)))

\* A pseudo-file: whether it exists, and the text the kernel shows for it.
NoFile == [exists |-> FALSE, text |-> <<>>]
FileOf(text) == [exists |-> TRUE, text |-> text]

\* __read_attribute(value, path, name): `file` is the state of path/name, `io`
\* the outcome of read(2) on it (0, or the errno it fails with).  Returns the
\* result and the caller's buffer.  OPEN_RETRY turns ENOENT into ENOTSUP; a
\* successful read copies the text and overwrites its last byte with NUL.
\* (The text of a sysfs attribute is never empty, so ret - 1 >= 0.)
read_attribute(value, file, io) ==
    IF ~file.exists THEN [ret |-> -ENOTSUP, value |-> value]
    ELSE IF io # 0 THEN [ret |-> -io, value |-> value]
    ELSE LET ret == Len(file.text)
         IN  [ret |-> 0,
              value |-> [i \in 1..Len(value) |->
                           IF i = ret THEN NUL
                           ELSE IF i < ret THEN file.text[i]
                           ELSE value[i]]]

\* outcomes of write(2) on len bytes: the number of bytes taken (all of them,
\* or half of them: a short write), or -errno
WriteOutcomes(len) == {-EIO, len \div 2, len}

\* signals that may interrupt one blocking system call
MaxIntr == 1

EINTR == 4

\* the outcomes of the successive read(2) or write(2) calls a loop may issue:
\* up to MaxIntr calls interrupted by a signal, then one that is not
RECURSIVE Interrupted(_)
Interrupted(k) == IF k = 0 THEN <<>> ELSE <<-EINTR>> \o Interrupted(k - 1)
Runs(outcomes) == {Interrupted(k) \o <<o>> : k \in 0..MaxIntr, o \in outcomes}
WriteRuns(len) == Runs(WriteOutcomes(len))

\* do { ret = write(fd, buf, len); } while (ret == -1 && errno == EINTR);
\* outs[k] is the outcome of the k-th call (bytes, or -errno), err the errno
\* before it.  Gives the value returned, errno, and the calls issued.
RECURSIVE RetryFrom(_, _, _)
RetryFrom(outs, k, err) ==
    LET o == outs[k]
        e == IF o < 0 THEN -o ELSE err
    IN  IF o = -EINTR /\ k < Len(outs) THEN RetryFrom(outs, k + 1, e)
        ELSE [ret |-> IF o < 0 THEN -1 ELSE o, errno |-> e, calls |-> k]

\* WRITE_RETRY_once is the variant without the loop: one call, whatever it
\* returns.
WRITE_RETRY_once(outs, err) ==
    [ret |-> IF outs[1] < 0 THEN -1 ELSE outs[1],
     errno |-> IF outs[1] < 0 THEN -outs[1] ELSE err,
     calls |-> 1]

WRITE_RETRY(outs, err) == RetryFrom(outs, 1, err)

READ_RETRY(outs, err) == RetryFrom(outs, 1, err)

\* the buffer write(2) is handed for a string: its bytes and the terminating NUL
WithNul(str) == str \o <<NUL>>

\* __write_attribute(value, path, name): the result the caller sees, `out` being
\* the outcome of write(2).  Only a negative return of write(2) is an error here
\* (core.c:316).
write_attribute(exists, out) ==
    IF ~exists THEN -ENOTSUP
    ELSE IF out < 0 THEN out
    ELSE 0

(***************************************************************************)
(* 3. Device tree, scanner and wakeup-source cache (core.c:40-55, 326-455) *)
(***************************************************************************)

\* table capacity: 128 in the source (core.c:40), scaled down
WAKEDEV_COUNT == 2
\* device directories under /sys/devices: one more than the table has slots
NDev == 3

Devs == 1..NDev
\* the directories whose devices are bound, unbound and given a power/wakeup
\* while the process runs; the last directory is only ever seen as it was at
\* process start
Hotplug == 1..(NDev - 1)

\* the device trees in which only the directories in D hold devices
LinksOn(D) == {f \in [Devs -> BOOLEAN] : \A n \in Devs \ D : ~f[n]}
AttrsOn(D, values) ==
    {f \in [Devs -> values \cup {"absent"}] : \A n \in Devs \ D : f[n] = "absent"}

\* /sys/devices is directory 0; directory 2k-1 is in it, directory 2k is in
\* directory 2k-1
Parent(n) == IF n % 2 = 0 THEN n - 1 ELSE 0

\* basenames: a directory and the one in it share theirs
\* (/sys/devices/eth0 and /sys/devices/eth0/eth0)
DevNames == <<"eth0", "usb1">>
basename(n) == DevNames[(((n - 1) \div 2) % Len(DevNames)) + 1]
\* a name no directory has
NoSuchName == "nonexistent"
CallNames == {DevNames[i] : i \in 1..Len(DevNames)} \cup {NoSuchName}

Slots == 0..(WAKEDEV_COUNT - 1)
NoOpens == [rd |-> {}, wr |-> {}]

\* struct wakeup_source: name and devpath (a canonical path is a directory);
\* NoEntry stands for the NULL pointer in a slot
NoEntry == [name |-> "", devpath |-> 0]
EmptyCache == [i \in Slots |-> NoEntry]

Absent == "absent"

\* power/wakeup as a pseudo-file: the kernel shows the state and a newline
WakeupShow(v) == IF v = Absent THEN NoFile
                 ELSE IF v = "enabled" THEN FileOf(S_enabled \o <<NL>>)
                 ELSE FileOf(S_disabled \o <<NL>>)

\* the kernel's store for power/wakeup, handed the first n bytes of buf: the
\* state becomes "enabled" or "disabled" when the C string in those bytes is
\* that word (a trailing newline allowed), and is left alone otherwise
StripNl(str) ==
    IF Len(str) > 0 /\ str[Len(str)] = NL THEN SubSeq(str, 1, Len(str) - 1) ELSE str
WakeupStore(v, buf, n) ==
    LET word == StripNl(CStr(SubSeq(buf, 1, n)))
    IN  IF n <= 0 THEN v
        ELSE IF word = S_enabled THEN "enabled"
        ELSE IF word = S_disabled THEN "disabled"
        ELSE v

\* the library's state at process start, over the device tree given
InitWakeOn(links, attrs) ==
    /\ drvLink \in links
    /\ wakeAttr \in attrs
    /\ wakeup_cache = EmptyCache
    /\ wakeOp = <<"none">>
    /\ wakeRet = 0
    /\ wakeName = ""
    /\ wakeScanned = FALSE
    /\ wakeCb = <<>>
    /\ wakeOpens = NoOpens
    /\ wakeNullDeref = FALSE
    /\ wakeOob = FALSE
    /\ crashed = FALSE

\* ---- scanner ----

\* the order readdir returns the entries of a directory in: the "driver" link
\* before or after the subdirectories, the subdirectories up or down
ScanOrders == [linkFirst : BOOLEAN, ascending : BOOLEAN]

Kids(n) == {k \in Devs : Parent(k) = n}

RECURSIVE SortSet(_, _)
SortSet(S, asc) ==
    IF S = {} THEN <<>>
    ELSE LET x == IF asc THEN CHOOSE m \in S : \A y \in S : m <= y
                         ELSE CHOOSE m \in S : \A y \in S : m >= y
         IN  <<x>> \o SortSet(S \ {x}, asc)

\* a path is the sequence of its components below the root of the system
RootPath == <<"/sys/devices">>
RECURSIVE PathOf(_)
PathOf(n) == IF n = 0 THEN RootPath ELSE Append(PathOf(Parent(n)), basename(n))

\* the directory a path names (realpath), NoDir when it names none
NoDir == -1
DirOfPath(path) ==
    IF \E n \in 0..NDev : PathOf(n) = path
    THEN CHOOSE n \in 0..NDev : PathOf(n) = path
    ELSE NoDir

\* struct dirent
Dirent(name, type) == [d_name |-> name, d_type |-> type]
Dots == <<Dirent(".", "DT_DIR"), Dirent("..", "DT_DIR")>>

RECURSIVE KidEntries(_)
KidEntries(kids) ==
    IF kids = <<>> THEN <<>>
    ELSE <<Dirent(basename(Head(kids)), "DT_DIR")>> \o KidEntries(Tail(kids))

\* opendir + readdir: the entries of the directory at `path`, in the order
\* `ord`.  A device directory holds the "driver" link when the device is bound,
\* the "subsystem" link, the "uevent" file, the "power" directory and its
\* subdirectories; "power" holds the "wakeup" file when the device has one.
readdir(path, ord) ==
    LET n     == DirOfPath(path)
        up    == IF Len(path) > 1 THEN DirOfPath(SubSeq(path, 1, Len(path) - 1)) ELSE NoDir
        links == IF n \in Devs /\ drvLink[n] THEN <<Dirent("driver", "DT_LNK")>> ELSE <<>>
        files == IF n \in Devs
                 THEN <<Dirent("subsystem", "DT_LNK"), Dirent("uevent", "DT_REG")>>
                 ELSE <<>>
        dirs  == (IF n \in Devs THEN <<Dirent("power", "DT_DIR")>> ELSE <<>>)
                     \o KidEntries(SortSet(Kids(n), ord.ascending))
    IN  IF n # NoDir
        THEN IF ord.linkFirst THEN Dots \o links \o files \o dirs
                              ELSE dirs \o files \o links \o Dots
        ELSE IF path[Len(path)] = "power" /\ up \in Devs /\ wakeAttr[up] # Absent
        THEN Dots \o <<Dirent("wakeup", "DT_REG")>>
        ELSE Dots

\* __sysfs_devices_parse(path, cb) on st = [path, cb]: the buffer `path`, which
\* every level of the recursion writes to, and the paths cb was called with so
\* far.  For each entry but "." and ".." the buffer is cut back to the `len`
\* bytes it had at entry; a DT_DIR is appended to it and walked; a DT_LNK named
\* "driver" reports the buffer; anything else is skipped.
\* ParseEntries_keep is the variant that does not cut the buffer back.
RECURSIVE sysfs_devices_parse(_, _)
RECURSIVE ParseEntries_keep(_, _, _, _)
ParseEntries_keep(st, len, ents, ord) ==
    IF ents = <<>> THEN st
    ELSE LET dir == Head(ents)
             cut == st.path
         IN  IF dir.d_name \in {".", ".."}
             THEN ParseEntries_keep(st, len, Tail(ents), ord)
             ELSE IF dir.d_type = "DT_DIR"
             THEN ParseEntries_keep(
                      sysfs_devices_parse([st EXCEPT !.path = Append(cut, dir.d_name)], ord),
                      len, Tail(ents), ord)
             ELSE IF dir.d_type = "DT_LNK" /\ dir.d_name = "driver"
             THEN ParseEntries_keep([path |-> cut, cb |-> Append(st.cb, cut)],
                                    len, Tail(ents), ord)
             ELSE ParseEntries_keep([st EXCEPT !.path = cut], len, Tail(ents), ord)

RECURSIVE ParseEntries(_, _, _, _)
ParseEntries(st, len, ents, ord) ==
    IF ents = <<>> THEN st
    ELSE LET dir == Head(ents)
             cut == SubSeq(st.path, 1, len)
         IN  IF dir.d_name \in {".", ".."}
             THEN ParseEntries(st, len, Tail(ents), ord)
             ELSE IF dir.d_type = "DT_DIR"
             THEN ParseEntries(
                      sysfs_devices_parse([st EXCEPT !.path = Append(cut, dir.d_name)], ord),
                      len, Tail(ents), ord)
             ELSE IF dir.d_type = "DT_LNK" /\ dir.d_name = "driver"
             THEN ParseEntries([path |-> cut, cb |-> Append(st.cb, cut)],
                               len, Tail(ents), ord)
             ELSE ParseEntries([st EXCEPT !.path = cut], len, Tail(ents), ord)

sysfs_devices_parse(st, ord) ==
    ParseEntries(st, Len(st.path), readdir(st.path, ord), ord)

\* ---- cache ----

Entry(n) == [name |-> basename(n), devpath |-> n]

\* while (syspower.wakeup_cache[i]) i++;  -- the first empty slot, or
\* WAKEDEV_COUNT when the walk leaves the table.
\* FirstFree_top is the variant that searches from the top of the table.
FirstFree_top(cache) ==
    IF \E i \in Slots : cache[i] = NoEntry
    THEN CHOOSE i \in Slots :
           cache[i] = NoEntry /\ \A j \in Slots : j > i => cache[j] # NoEntry
    ELSE WAKEDEV_COUNT

FirstFree(cache) ==
    IF \E i \in Slots : cache[i] = NoEntry
    THEN CHOOSE i \in Slots :
           cache[i] = NoEntry /\ \A j \in Slots : j < i => cache[j] # NoEntry
    ELSE WAKEDEV_COUNT

\* power/wakeup under the directory n
WakeupFile(n) == IF n \in Devs THEN WakeupShow(wakeAttr[n]) ELSE NoFile

\* __syspower_new_device(devpath) on the scan state st = [cache, rd, oob, cb]:
\* rd collects the power/wakeup files opened, oob records a read of the slot
\* after the table, cb is the list of the calls made so far.  (malloc is taken
\* to succeed.)
syspower_new_device(st, devpath) ==
    LET n == DirOfPath(devpath)
        r == read_attribute(CharArray(<<>>, 9), WakeupFile(n), 0)
        i == FirstFree(st.cache)
    IN  IF r.ret # 0 THEN [st EXCEPT !.cb = Append(@, devpath)]
        ELSE IF i >= WAKEDEV_COUNT
             THEN [st EXCEPT !.rd = @ \cup {n}, !.oob = TRUE, !.cb = Append(@, devpath)]
             ELSE [cache |-> [st.cache EXCEPT ![i] = Entry(n)],
                   rd |-> st.rd \cup {n},
                   oob |-> st.oob,
                   cb |-> Append(st.cb, devpath)]

RECURSIVE ForEachDevice(_, _)
ForEachDevice(st, cands) ==
    IF cands = <<>> THEN st
    ELSE ForEachDevice(syspower_new_device(st, Head(cands)), Tail(cands))

\* the paths the scan from /sys/devices calls cb with, in order
ScanCalls(ord) == sysfs_devices_parse([path |-> RootPath, cb |-> <<>>], ord).cb

\* __wakeup_cache_update(): memset, then the scan from /sys/devices
wakeup_cache_update(ord) ==
    ForEachDevice([cache |-> EmptyCache, rd |-> {}, oob |-> FALSE, cb |-> <<>>],
                  ScanCalls(ord))

\* the scan state when no scan runs
NoScan == [cache |-> wakeup_cache, rd |-> {}, oob |-> FALSE, cb |-> <<>>]

\* while (syspower.wakeup_cache[i]) { strcmp ...; i++ }: the first slot holding
\* `name` before the first empty slot; NULL at an empty slot; "past" when the
\* walk leaves the table (every slot occupied, none holding the name).
\* WalkFrom_last is the variant that goes on after a match and keeps the last.
RECURSIVE WalkFrom_last(_, _, _)
WalkFrom_last(cache, name, i) ==
    IF i >= WAKEDEV_COUNT THEN [ws |-> NoEntry, past |-> TRUE]
    ELSE IF cache[i] = NoEntry THEN [ws |-> NoEntry, past |-> FALSE]
    ELSE LET rest == WalkFrom_last(cache, name, i + 1)
         IN  IF cache[i].name = name /\ rest.ws = NoEntry
             THEN [ws |-> cache[i], past |-> FALSE]
             ELSE rest

RECURSIVE WalkFrom(_, _, _)
WalkFrom(cache, name, i) ==
    IF i >= WAKEDEV_COUNT THEN [ws |-> NoEntry, past |-> TRUE]
    ELSE IF cache[i] = NoEntry THEN [ws |-> NoEntry, past |-> FALSE]
    ELSE IF cache[i].name = name THEN [ws |-> cache[i], past |-> FALSE]
    ELSE WalkFrom(cache, name, i + 1)

\* the rest of __wakeup_source_lookup once the scan, if any, has left st
Walk(st, name, scanned) ==
    LET w == IF st.cache[0] = NoEntry
             THEN [ws |-> NoEntry, past |-> FALSE]
             ELSE WalkFrom(st.cache, name, 0)
    IN  [ws |-> w.ws,
         st |-> [st EXCEPT !.oob = @ \/ w.past],
         scanned |-> scanned]

\* __wakeup_source_lookup(name): scan when slot 0 is empty, then walk.
\* Returns the entry found (NoEntry: NULL), the scan state, whether a scan ran.
\* wakeup_source_lookup_always is the variant without the test of slot 0: it
\* scans on every lookup.
wakeup_source_lookup_always(name, ord) ==
    Walk(wakeup_cache_update(ord), name, TRUE)

wakeup_source_lookup(name, ord) ==
    IF wakeup_cache[0] = NoEntry
    THEN Walk(wakeup_cache_update(ord), name, TRUE)
    ELSE Walk(NoScan, name, FALSE)

\* ---- public calls ----

\* a read outside the table or through a NULL pointer is undefined: the call
\* goes on with what a zero word gives, or the process takes a fault
Faults(undefined) == IF undefined THEN BOOLEAN ELSE {FALSE}

\* const char *syspower_wakeup_get(unsigned int index)
\* The name of slot `index`; on an empty slot the expression
\* wakeup_cache[index]->name goes through NULL (name is at offset 0, so a build
\* that does not trap yields NULL).
syspower_wakeup_get(index, ord) ==
    /\ ~crashed
    /\ wakeOp' = <<"get", index>>
    /\ wakeRet' = 0
    /\ IF index >= WAKEDEV_COUNT
       THEN /\ wakeName' = "NULL"
            /\ UNCHANGED <<wakeup_cache, crashed>>
            /\ wakeScanned' = FALSE
            /\ wakeCb' = <<>>
            /\ wakeOpens' = NoOpens
            /\ wakeNullDeref' = FALSE
            /\ wakeOob' = FALSE
       ELSE \E st \in {IF wakeup_cache[0] = NoEntry THEN wakeup_cache_update(ord) ELSE NoScan} :
            LET scanned == wakeup_cache[0] = NoEntry
                deref == st.cache[index] = NoEntry
            IN  /\ wakeup_cache' = st.cache
                /\ wakeOpens' = [rd |-> st.rd, wr |-> {}]
                /\ wakeScanned' = scanned
                /\ wakeCb' = st.cb
                /\ wakeOob' = st.oob
                /\ wakeNullDeref' = deref
                /\ \E fault \in Faults(deref \/ st.oob) :
                     /\ crashed' = fault
                     /\ wakeName' = IF fault THEN ""
                                    ELSE IF deref THEN "NULL"
                                    ELSE st.cache[index].name
    /\ UNCHANGED <<drvLink, wakeAttr>>
    /\ UNCHANGED exceptWake

\* syspower_wakeup_enable / syspower_wakeup_disable: `word` is the string
\* written ("enabled" / "disabled"), `out` the outcome of write(2) when the
\* call gets to it
WakeupSet(op, word, name, ord) ==
    \E l \in {wakeup_source_lookup(name, ord)} :
    LET dev == l.ws.devpath
        exists == l.ws # NoEntry /\ wakeAttr[dev] # Absent
    IN  /\ ~crashed
        /\ wakeOp' = <<op, name>>
        /\ wakeName' = ""
        /\ wakeup_cache' = l.st.cache
        /\ wakeScanned' = l.scanned
        /\ wakeCb' = l.st.cb
        /\ wakeOob' = l.st.oob
        /\ wakeNullDeref' = FALSE
        /\ \E fault \in Faults(l.st.oob) :
             /\ crashed' = fault
             /\ IF fault
                THEN /\ wakeRet' = 0
                     /\ wakeOpens' = [rd |-> l.st.rd, wr |-> {}]
                     /\ UNCHANGED wakeAttr
                ELSE IF l.ws = NoEntry
                THEN /\ wakeRet' = -ENOENT
                     /\ wakeOpens' = [rd |-> l.st.rd, wr |-> {}]
                     /\ UNCHANGED wakeAttr
                ELSE \E out \in IF exists THEN WriteOutcomes(Len(word) + 1) ELSE {0} :
                     /\ wakeRet' = write_attribute(exists, out)
                     /\ wakeOpens' = [rd |-> l.st.rd,
                                      wr |-> IF exists THEN {dev} ELSE {}]
                     /\ wakeAttr' = IF exists
                                    THEN [wakeAttr EXCEPT ![dev] =
                                            WakeupStore(@, WithNul(word), out)]
                                    ELSE wakeAttr
        /\ UNCHANGED drvLink
        /\ UNCHANGED exceptWake

syspower_wakeup_enable(name, ord) ==
    WakeupSet("enable", S_enabled, name, ord)

syspower_wakeup_disable(name, ord) ==
    WakeupSet("disable", S_disabled, name, ord)

\* bool syspower_wakeup_enabled(name): a bool function returning -ENOENT
\* returns true; otherwise the attribute is read into attr[128] = "" and its
\* first strlen("enabled") bytes are compared.
\* The third field of wakeOp tells whether the call directly follows an
\* enable or a disable of the same name that returned 0.
ToBool(x) == IF x # 0 THEN 1 ELSE 0

Follows(name) ==
    IF wakeOp[1] \in {"enable", "disable"} /\ wakeOp[2] = name /\ wakeRet = 0
    THEN wakeOp[1]
    ELSE "other"

syspower_wakeup_enabled(name, ord) ==
    \E l \in {wakeup_source_lookup(name, ord)} :
    LET dev == l.ws.devpath
        r == read_attribute(CharArray(<<>>, 9), WakeupShow(wakeAttr[dev]), 0)
    IN  /\ ~crashed
        /\ wakeOp' = <<"enabled", name, Follows(name)>>
        /\ wakeName' = ""
        /\ wakeup_cache' = l.st.cache
        /\ wakeScanned' = l.scanned
        /\ wakeCb' = l.st.cb
        /\ wakeOob' = l.st.oob
        /\ wakeNullDeref' = FALSE
        /\ \E fault \in Faults(l.st.oob) :
             /\ crashed' = fault
             /\ IF fault
                THEN /\ wakeRet' = 0
                     /\ wakeOpens' = [rd |-> l.st.rd, wr |-> {}]
                ELSE IF l.ws = NoEntry
                THEN /\ wakeRet' = ToBool(-ENOENT)
                     /\ wakeOpens' = [rd |-> l.st.rd, wr |-> {}]
                ELSE /\ wakeRet' = IF strncmp_eq(S_enabled, CStr(r.value), Len(S_enabled))
                                   THEN 1 ELSE 0
                     /\ wakeOpens' = [rd |-> l.st.rd \cup
                                             (IF r.ret = 0 THEN {dev} ELSE {}),
                                      wr |-> {}]
        /\ UNCHANGED <<drvLink, wakeAttr>>
        /\ UNCHANGED exceptWake

\* ---- the rest of the system ----

\* The device tree changes under the library; the record of the last call is
\* cleared.
EnvStep ==
    /\ ~crashed
    /\ wakeOp' = <<"env">>
    /\ wakeRet' = 0
    /\ wakeName' = ""
    /\ wakeScanned' = FALSE
    /\ wakeCb' = <<>>
    /\ wakeOpens' = NoOpens
    /\ wakeNullDeref' = FALSE
    /\ wakeOob' = FALSE
    /\ UNCHANGED <<wakeup_cache, crashed>>
    /\ UNCHANGED exceptWake

\* a device is bound to or unbound from its driver
EnvDriver(n) ==
    /\ drvLink' = [drvLink EXCEPT ![n] = ~@]
    /\ UNCHANGED wakeAttr
    /\ EnvStep

\* power/wakeup of a device appears, goes away, or is set by someone else
EnvAttr(n, v) ==
    /\ v # wakeAttr[n]
    /\ wakeAttr' = [wakeAttr EXCEPT ![n] = v]
    /\ UNCHANGED drvLink
    /\ EnvStep

\* the arguments of the calls: every slot index, and the two after the table
GetIndexes == 0..(WAKEDEV_COUNT + 1)

\* the readdir orders that matter to a call: those of the scan it runs, if any
Orders == IF wakeup_cache[0] = NoEntry
          THEN ScanOrders
          ELSE {[linkFirst |-> TRUE, ascending |-> TRUE]}

NextWake ==
    \/ \E i \in GetIndexes, ord \in Orders : syspower_wakeup_get(i, ord)
    \/ \E name \in CallNames, ord \in Orders : syspower_wakeup_enable(name, ord)
    \/ \E name \in CallNames, ord \in Orders : syspower_wakeup_disable(name, ord)
    \/ \E name \in CallNames, ord \in Orders : syspower_wakeup_enabled(name, ord)
    \/ \E n \in Hotplug : EnvDriver(n)
    \/ \E n \in Hotplug, v \in {Absent, "enabled", "disabled"} : EnvAttr(n, v)

\* the calls alone, on a tree that stays as it is
NextCap ==
    \/ \E i \in GetIndexes, ord \in Orders : syspower_wakeup_get(i, ord)
    \/ \E name \in CallNames, ord \in Orders : syspower_wakeup_enable(name, ord)
    \/ \E name \in CallNames, ord \in Orders : syspower_wakeup_disable(name, ord)
    \/ \E name \in CallNames, ord \in Orders : syspower_wakeup_enabled(name, ord)


\* ---- claims on the cache ----

IsLookup(op) == op[1] \in {"enable", "disable", "enabled"}

\* the entry a name stands for in the table: the first slot holding it
CacheFind(name) ==
    LET hits == {i \in Slots : wakeup_cache[i] # NoEntry /\ wakeup_cache[i].name = name}
    IN  IF hits = {} THEN NoEntry
        ELSE wakeup_cache[CHOOSE i \in hits : \A j \in hits : i <= j]

\* C2 (as stated): once a name lookup has run, the lookups after it run no scan
\* of the device tree, whatever the tree holds.
C2_ScanOnce ==
    [][(IsLookup(wakeOp) /\ IsLookup(wakeOp')) => ~wakeScanned']_vars

\* C2 (amended): a name lookup scans the device tree exactly when slot 0 of the
\* table is empty at the call; once slot 0 is filled the table is never touched
\* again, so no later lookup scans, however the tree changes; a scan that admits
\* no device leaves slot 0 empty and the next lookup scans again.
C2_LazyScan ==
    [][/\ IsLookup(wakeOp') => (wakeScanned' <=> wakeup_cache[0] = NoEntry)
       /\ wakeup_cache[0] # NoEntry => wakeup_cache' = wakeup_cache]_vars

\* a lookup that ran no scan although the device it has cached is no longer
\* bound to a driver
C2_Witness ==
    /\ IsLookup(wakeOp)
    /\ ~wakeScanned
    /\ wakeup_cache[0] # NoEntry
    /\ ~drvLink[wakeup_cache[0].devpath]

\* C3: syspower_wakeup_get(i) returns the name in slot i when the slot is
\* filled, and NULL for every other index, without applying -> to an empty slot
\* and without a fault.
C3_Enumeration ==
    wakeOp[1] = "get" =>
        /\ ~crashed
        /\ ~wakeNullDeref
        /\ wakeName = IF wakeOp[2] < WAKEDEV_COUNT /\ wakeup_cache[wakeOp[2]] # NoEntry
                      THEN wakeup_cache[wakeOp[2]].name
                      ELSE "NULL"

\* C4: syspower_wakeup_enabled(name) called right after syspower_wakeup_enable(name)
\* returned 0 gives true, and right after syspower_wakeup_disable(name) returned 0
\* gives false.
C4_RoundTrip ==
    (wakeOp[1] = "enabled" /\ ~crashed) =>
        /\ wakeOp[3] = "enable" => wakeRet = 1
        /\ wakeOp[3] = "disable" => wakeRet = 0

\* C5: syspower_wakeup_enable / syspower_wakeup_disable with a name no device
\* has returns -ENOENT, in every state of the table, and opens no attribute
\* file for writing.
C5_NotFound ==
    (wakeOp[1] \in {"enable", "disable"} /\ wakeOp[2] = NoSuchName) =>
        /\ ~crashed
        /\ wakeRet = -ENOENT
        /\ wakeOpens.wr = {}

\* C6: syspower_wakeup_enabled(name) returns true exactly when the name is in
\* the table and power/wakeup of that device reads "enabled".
C6_EnabledIff ==
    (wakeOp[1] = "enabled" /\ ~crashed) =>
        (wakeRet = 1 <=>
            /\ CacheFind(wakeOp[2]) # NoEntry
            /\ wakeAttr[CacheFind(wakeOp[2]).devpath] = "enabled")

\* C18 (as stated): in every table no two entries have the same name, whatever
\* the device tree, two admitted devices of one basename included.
C18_UniqueNames ==
    \A i, j \in Slots :
        (i # j /\ wakeup_cache[i] # NoEntry /\ wakeup_cache[j] # NoEntry)
            => wakeup_cache[i].name # wakeup_cache[j].name

\* C18 (amended): names are not kept unique; two admitted devices of one
\* basename both get an entry, and a call by name acts on the first entry of
\* that name in table order: the attribute it writes is that entry's, never a
\* later duplicate's.
C18_FirstMatchWins ==
    (wakeOp[1] \in {"enable", "disable"} /\ ~crashed) =>
        /\ wakeOpens.wr # {} => CacheFind(wakeOp[2]) # NoEntry
        /\ \A i \in Slots :
             (wakeup_cache[i] # NoEntry /\ wakeup_cache[i].devpath \in wakeOpens.wr)
                 => wakeup_cache[i] = CacheFind(wakeOp[2])

\* an enable that succeeded on a name two entries have: the first one's
\* attribute was written, the second one's was not
C18_Witness ==
    /\ wakeOp[1] = "enable"
    /\ wakeRet = 0
    /\ wakeup_cache[0].name = wakeOp[2]
    /\ wakeup_cache[1].name = wakeOp[2]
    /\ wakeup_cache[1].devpath # wakeup_cache[0].devpath
    /\ wakeOpens.wr = {wakeup_cache[0].devpath}

\* the devices the last scan admitted: those whose power/wakeup it read
Admitted == wakeOpens.rd

\* C20: a scan calls the admission step exactly once for each directory that
\* holds a symbolic link named "driver", with the path of that directory, and
\* with no other path, in whatever order the entries of a directory come; it
\* admits the directory exactly when its power/wakeup can be read.  Files,
\* other links and directories without the link are never admitted and never
\* get into the table.
C20_ScannerAdmission ==
    wakeScanned =>
        /\ \A n \in Devs :
             Cardinality({i \in DOMAIN wakeCb : wakeCb[i] = PathOf(n)})
                 = IF drvLink[n] THEN 1 ELSE 0
        /\ \A i \in DOMAIN wakeCb : DirOfPath(wakeCb[i]) \in Devs
        /\ \A n \in Devs : n \in Admitted <=> (drvLink[n] /\ wakeAttr[n] # Absent)
        /\ Admitted \subseteq Devs
        /\ \A i \in Slots : wakeup_cache[i] # NoEntry => wakeup_cache[i].devpath \in Admitted

\* a scan that met the "driver" link of a directory after it had walked the one
\* below it, reported both under their own paths, and admitted only the lower
\* one, the upper one having no power/wakeup
C20_Witness ==
    /\ wakeScanned
    /\ wakeCb = <<PathOf(2), PathOf(1)>>
    /\ wakeAttr[1] = Absent
    /\ Admitted = {2}
    /\ wakeup_cache[0] = Entry(2)

\* C22: syspower_wakeup_enable / syspower_wakeup_disable called with a name the
\* table does not hold, on a table that is not empty, returns -ENOENT and
\* changes nothing: no scan runs, no attribute is opened for writing, no slot
\* outside the table is read, the table and the attributes stay as they were,
\* whether or not a device of that name has appeared in the tree since.
C22_AbsentNameNoEffect ==
    [][(/\ wakeOp'[1] \in {"enable", "disable"}
        /\ wakeup_cache[0] # NoEntry
        /\ CacheFind(wakeOp'[2]) = NoEntry)
       => /\ ~crashed'
          /\ ~wakeOob'
          /\ wakeRet' = -ENOENT
          /\ ~wakeScanned'
          /\ wakeOpens' = NoOpens
          /\ wakeup_cache' = wakeup_cache
          /\ wakeAttr' = wakeAttr]_vars

\* the filled slots of a table are its first ones
IsPrefix(cache) ==
    \A i, j \in Slots : (j < i /\ cache[i] # NoEntry) => cache[j] # NoEntry

\* C24: between calls the filled slots of the table are a prefix of it: a
\* filled slot has only filled slots before it.  So slot 0 is empty exactly when
\* the whole table is, the walk of a lookup, which stops at the first empty
\* slot, finds every name the table holds, and a rebuild, which runs only when
\* slot 0 is empty, starts from a table without entries and discards none.
C24_ContiguousPrefix ==
    [][/\ IsPrefix(wakeup_cache')
       /\ wakeup_cache'[0] = NoEntry <=> wakeup_cache' = EmptyCache
       /\ \A name \in CallNames :
            CacheFind(name)' = WalkFrom(wakeup_cache', name, 0).ws
       /\ wakeScanned' => wakeup_cache = EmptyCache]_vars

\* a scan whose first candidate had no power/wakeup and whose second was
\* admitted: the second is in slot 0, and the slot after it is empty
C24_Witness ==
    /\ wakeScanned
    /\ ~crashed
    /\ Len(wakeCb) = 2
    /\ Admitted = {DirOfPath(wakeCb[2])}
    /\ wakeup_cache[0] = Entry(DirOfPath(wakeCb[2]))
    /\ wakeup_cache[1] = NoEntry

\* the paths the last scan admitted, in the order it met them
AdmittedPaths == SelectSeq(wakeCb, LAMBDA p : DirOfPath(p) \in Admitted)

\* C21: a scan that admits more devices than the table has slots leaves the
\* first WAKEDEV_COUNT admitted devices in the table, in the order it met them,
\* drops the others, and reads no slot outside the table on the way, the search
\* for a free slot in a full table included.  (Seen through
\* syspower_wakeup_get, which touches the table only in the scan and at the
\* index it is given.)
C21_CapacityBound ==
    (wakeOp[1] = "get" /\ wakeScanned) =>
        /\ ~wakeOob
        /\ \A i \in Slots :
             wakeup_cache[i] = IF i < Len(AdmittedPaths)
                               THEN Entry(DirOfPath(AdmittedPaths[i + 1]))
                               ELSE NoEntry

(***************************************************************************)
(* 4. Sleep control files (core.c:57-114, 156-209)                         *)
(***************************************************************************)

\* descriptors a process may have open (RLIMIT_NOFILE), scaled down
MaxFd == 5

EMFILE == 24

\* enum syspower_sleep_type (syspower.h:19-25)
SYSPOWER_SLEEP_TYPE_FREEZE    == 0
SYSPOWER_SLEEP_TYPE_STANDBY   == 1
SYSPOWER_SLEEP_TYPE_MEM       == 2
SYSPOWER_SLEEP_TYPE_HIBERNATE == 3
SYSPOWER_SLEEP_TYPE_MAX       == 4

\* The enumeration has no negative enumerator, so gcc and clang give it the
\* type unsigned int: an argument is taken modulo 2^width.  The width is 32 in
\* the build, scaled down here.
UintBits == 8
AsEnum(x) == x % (2 ^ UintBits)

S_off     == <<"o", "f", "f">>
S_mem     == <<"m", "e", "m">>
S_standby == <<"s", "t", "a", "n", "d", "b", "y">>
S_freeze  == <<"f", "r", "e", "e", "z", "e">>
S_disk    == <<"d", "i", "s", "k">>

\* static const char *sleep_state[]; outside the array there is no string
sleep_state(type) ==
    CASE type = SYSPOWER_SLEEP_TYPE_MEM -> S_mem \o <<NL>>
      [] type = SYSPOWER_SLEEP_TYPE_STANDBY -> S_standby \o <<NL>>
      [] type = SYSPOWER_SLEEP_TYPE_FREEZE -> S_freeze \o <<NL>>
      [] type = SYSPOWER_SLEEP_TYPE_HIBERNATE -> S_disk \o <<NL>>
      [] OTHER -> <<>>

\* if (type >= SYSPOWER_SLEEP_TYPE_MAX) return -EINVAL;
\* TypeRejected_above is the variant comparing with >: it lets
\* SYSPOWER_SLEEP_TYPE_MAX itself through.
TypeRejected_above(type) == type > SYSPOWER_SLEEP_TYPE_MAX

TypeRejected(type) == type >= SYSPOWER_SLEEP_TYPE_MAX

\* the kernel's store for /sys/power/autosleep, handed the first n bytes of
\* buf: the word is what precedes the first newline (or all n bytes); a sleep
\* label sets that state; otherwise the C string must be "off" or "off\n";
\* anything else leaves the state alone
SleepLabels == {S_freeze, S_standby, S_mem, S_disk}

RECURSIVE UpTo(_, _, _)
UpTo(bytes, ch, i) ==
    IF i > Len(bytes) \/ bytes[i] = ch THEN SubSeq(bytes, 1, i - 1)
    ELSE UpTo(bytes, ch, i + 1)

AutosleepStore(cur, buf, n) ==
    LET bytes == SubSeq(buf, 1, n)
        word  == UpTo(bytes, NL, 1)
    IN  IF n <= 0 THEN cur
        ELSE IF word \in SleepLabels THEN word
        ELSE IF CStr(bytes) \in {S_off, S_off \o <<NL>>} THEN S_off
        ELSE cur

\* the state at process start: no control file opened; stdin may be closed
NoWrite == [file |-> "", buf |-> <<>>, len |-> 0, out |-> 0, outs |-> <<>>, calls |-> 0]
ControlFiles == {"autosleep", "state"}

InitSleepOn(files, fds) ==
    /\ syspower_fd = [f \in ControlFiles |-> 0]
    /\ errno = 0
    /\ openFds \in fds
    /\ pmFiles \in files
    /\ autosleep = S_off
    /\ sleepOp = <<"none", 0>>
    /\ sleepRet = 0
    /\ sleepPrev = <<"none", 0, 0>>
    /\ sleepOpened = {}
    /\ sleepWrite = NoWrite

\* OPEN_RETRY(path, flags): open(2) gives the lowest free descriptor, or fails
\* with ENOENT (turned into ENOTSUP) or EMFILE.  Returns the descriptor or -1,
\* and errno.
FreeFds(open) == (0..(MaxFd - 1)) \ open
OPEN_RETRY(file, open, err) ==
    IF file \notin pmFiles THEN [fd |-> -1, errno |-> ENOTSUP]
    ELSE IF FreeFds(open) = {} THEN [fd |-> -1, errno |-> EMFILE]
    ELSE [fd |-> CHOOSE d \in FreeFds(open) : \A e \in FreeFds(open) : d <= e,
          errno |-> err]

\* __open_once(&fd, path, flags): reuse a descriptor > 0, else open; `o` is
\* what OPEN_RETRY gives if it is called, `err` the errno before the call.
\* Returns its result, the descriptor field, errno, and whether it called
\* open(2) and whether that opened the file.
open_once(fd, o, err) ==
    IF fd > 0
    THEN [ret |-> 0, fd |-> fd, errno |-> err, tried |-> FALSE, opened |-> FALSE]
    ELSE IF o.fd < 0
    THEN [ret |-> o.fd, fd |-> fd, errno |-> o.errno, tried |-> TRUE, opened |-> FALSE]
    ELSE [ret |-> 0, fd |-> o.fd, errno |-> o.errno, tried |-> TRUE, opened |-> TRUE]

\* the body the three calls share: open the control file once, write the
\* string and its terminating NUL in one write(2), compare the count.
\* `outs` are the outcomes of the write(2) calls: the bytes taken, or -errno.
ControlWrite(op, arg, file, str, outs) ==
    LET o    == open_once(syspower_fd[file], OPEN_RETRY(file, openFds, errno), errno)
        len  == Len(str) + 1
        w    == WRITE_RETRY(outs, o.errno)
        ret  == w.ret
        err  == w.errno
    IN  /\ sleepOp' = <<op, arg>>
        /\ sleepPrev' = <<sleepOp[1], sleepOp[2], sleepRet>>
        /\ syspower_fd' = [syspower_fd EXCEPT ![file] = o.fd]
        /\ openFds' = IF o.opened THEN openFds \cup {o.fd} ELSE openFds
        /\ sleepOpened' = IF o.tried THEN {file} ELSE {}
        /\ IF o.ret # 0
           THEN /\ sleepRet' = o.ret
                /\ errno' = o.errno
                /\ sleepWrite' = NoWrite
                /\ UNCHANGED autosleep
           ELSE /\ sleepRet' = IF ret # len THEN -err ELSE 0
                /\ errno' = err
                /\ sleepWrite' = [file |-> file, buf |-> WithNul(str),
                                  len |-> len, out |-> ret,
                                  outs |-> outs, calls |-> w.calls]
                /\ autosleep' = IF file = "autosleep"
                                THEN AutosleepStore(autosleep, WithNul(str), ret)
                                ELSE autosleep
        /\ UNCHANGED pmFiles
        /\ UNCHANGED exceptSleep

\* return -EINVAL before anything else is done
RejectType(op, arg) ==
    /\ sleepOp' = <<op, arg>>
    /\ sleepPrev' = <<sleepOp[1], sleepOp[2], sleepRet>>
    /\ sleepRet' = -EINVAL
    /\ sleepOpened' = {}
    /\ sleepWrite' = NoWrite
    /\ UNCHANGED <<syspower_fd, errno, openFds, pmFiles, autosleep>>
    /\ UNCHANGED exceptSleep

\* int syspower_autosleep_enable(enum syspower_sleep_type type)
syspower_autosleep_enable(arg, outs) ==
    IF TypeRejected(AsEnum(arg))
    THEN RejectType("autosleep_enable", arg)
    ELSE ControlWrite("autosleep_enable", arg, "autosleep", sleep_state(AsEnum(arg)), outs)

\* int syspower_autosleep_disable(void): writes "off" (no newline) and its NUL.
\* OffToken_on is a variant writing another word.
OffToken_on == <<"o", "n">>

OffToken == S_off

syspower_autosleep_disable(outs) ==
    ControlWrite("autosleep_disable", 0, "autosleep", OffToken, outs)

\* int syspower_suspend(enum syspower_sleep_type type): the write returns when
\* the system has resumed
syspower_suspend(arg, outs) ==
    IF TypeRejected(AsEnum(arg))
    THEN RejectType("suspend", arg)
    ELSE ControlWrite("suspend", arg, "state", sleep_state(AsEnum(arg)), outs)

\* the arguments of the calls: every sleep type, the two values after the
\* last, and -1
TypeArgs == {-1} \cup (0..(SYSPOWER_SLEEP_TYPE_MAX + 1))
LenOf(arg) == Len(sleep_state(AsEnum(arg))) + 1

\* no signal arrives during these calls: every write(2) is issued once
NextSleep ==
    \/ \E arg \in TypeArgs : \E out \in WriteOutcomes(LenOf(arg)) :
         syspower_autosleep_enable(arg, <<out>>)
    \/ \E out \in WriteOutcomes(Len(OffToken) + 1) : syspower_autosleep_disable(<<out>>)
    \/ \E arg \in TypeArgs : \E out \in WriteOutcomes(LenOf(arg)) :
         syspower_suspend(arg, <<out>>)

\* ---- claims on the sleep control files ----

ValidTypes == 0..(SYSPOWER_SLEEP_TYPE_MAX - 1)
Wrote(w) == w # NoWrite
TakenInFull(w) == w # NoWrite /\ w.out = w.len

\* C7: for every valid sleep type, the write syspower_autosleep_enable issues
\* on the autosleep file is the type's token, and the write
\* syspower_autosleep_disable issues on it is the token "off", whatever call
\* came before; when the write is taken in full the call returns 0 and the file
\* holds that state, so after enable then disable the file holds "off"; and a
\* call repeated with the same argument, its write taken in full again, returns
\* 0 again and leaves the file as it was.
C7_EnableDisableOff ==
    [][/\ (sleepOp'[1] = "autosleep_disable" /\ Wrote(sleepWrite')) =>
            /\ sleepWrite'.file = "autosleep"
            /\ sleepWrite'.buf = <<"o", "f", "f", NUL>>
            /\ TakenInFull(sleepWrite') => (sleepRet' = 0 /\ autosleep' = S_off)
       /\ (sleepOp'[1] = "autosleep_enable" /\ Wrote(sleepWrite')) =>
            /\ sleepOp'[2] \in ValidTypes
            /\ sleepWrite'.file = "autosleep"
            /\ sleepWrite'.buf = WithNul(sleep_state(sleepOp'[2]))
            /\ TakenInFull(sleepWrite') =>
                  /\ sleepRet' = 0
                  /\ autosleep' \o <<NL>> = sleep_state(sleepOp'[2])
       /\ ( /\ sleepOp' = sleepOp
            /\ sleepOp[1] \in {"autosleep_enable", "autosleep_disable"}
            /\ TakenInFull(sleepWrite)
            /\ TakenInFull(sleepWrite') ) =>
            (sleepRet' = 0 /\ autosleep' = autosleep)]_vars

\* syspower_autosleep_disable returned 0 right after a syspower_autosleep_enable
\* of a valid type returned 0, and the file holds "off"
C7_Witness ==
    /\ sleepOp[1] = "autosleep_disable"
    /\ sleepPrev = <<"autosleep_enable", SYSPOWER_SLEEP_TYPE_MEM, 0>>
    /\ TakenInFull(sleepWrite)
    /\ sleepRet = 0
    /\ autosleep = S_off

OutOfRange(op) ==
    /\ op[1] \in {"autosleep_enable", "suspend"}
    /\ AsEnum(op[2]) \notin ValidTypes

\* C8: syspower_autosleep_enable and syspower_suspend with a type outside the
\* enumeration return -EINVAL and change nothing: no control file is opened or
\* written, and the kept descriptors, the open descriptors, errno and the
\* autosleep state are as before.
C8_InvalidType ==
    [][OutOfRange(sleepOp') =>
         /\ sleepRet' = -EINVAL
         /\ sleepOpened' = {}
         /\ sleepWrite' = NoWrite
         /\ UNCHANGED <<syspower_fd, openFds, errno, autosleep>>]_vars

\* an out-of-range call made once a descriptor is kept and autosleep is on
C8_Witness ==
    /\ OutOfRange(sleepOp)
    /\ sleepRet = -EINVAL
    /\ syspower_fd["autosleep"] > 0
    /\ autosleep = S_mem

\* the last call tried to open its control file and open(2) failed
OpenFailed == sleepOpened # {} /\ ~Wrote(sleepWrite)

\* C12: when a call needs a control file that does not exist, the value it
\* returns is -ENOTSUP; when the open fails for another reason the value is
\* another negative one.
C12_NotSupported ==
    \A f \in ControlFiles :
        (sleepOpened = {f} /\ OpenFailed) =>
            /\ f \notin pmFiles => sleepRet = -ENOTSUP
            /\ f \in pmFiles => (sleepRet < 0 /\ sleepRet # -ENOTSUP)

\* the control file a call works on
ControlFileOf(op) ==
    IF op[1] \in {"autosleep_enable", "autosleep_disable"} THEN "autosleep"
    ELSE IF op[1] = "suspend" THEN "state"
    ELSE ""

\* the last call opened control file f with success (it went on to write)
OpenedNow(f) == sleepOpened = {f} /\ Wrote(sleepWrite)

\* C13: a control file is opened with success at most once, whatever
\* descriptor open(2) gives for it: the call that follows one that opened the
\* file, working on the same file, opens nothing; and no descriptor is ever
\* closed.
C13_OpenOnce ==
    [][/\ \A f \in ControlFiles :
             (OpenedNow(f) /\ ControlFileOf(sleepOp') = f /\ ~OutOfRange(sleepOp')) =>
                 sleepOpened' = {}
       /\ openFds \subseteq openFds']_vars

\* C15: a write on a control file is reported as a success (0) exactly when
\* write(2) took every byte asked for; a write that took fewer returns an error,
\* after that one system call.
C15_ShortWriteIsError ==
    Wrote(sleepWrite) =>
        /\ sleepRet = 0 <=> sleepWrite.out = sleepWrite.len
        /\ sleepWrite.calls = 1

(***************************************************************************)
(* 5. RTC wake alarm (core.c:116-154)                                      *)
(***************************************************************************)

\* struct rtc_time, the fields RTC_ALM_SET uses
Time(h, m, s) == [tm_hour |-> h, tm_min |-> m, tm_sec |-> s]
NoAlarm == Time(0, 0, 0)

\* clock readings and delays the calls are made with
ClockHours   == {0, 23}
ClockMinutes == {0, 59}
ClockSeconds == {0, 30, 59}
SecondsPerDay == 24 * 60 * 60
Delays == {0, 2, 30, 60, 120, 3600, SecondsPerDay - 1}

\* the outcomes of opening /dev/rtc: absent, refused, or a descriptor
EACCES == 13
RtcOpens == {[fd |-> -1, errno |-> ENOTSUP], [fd |-> -1, errno |-> EACCES],
             [fd |-> 0, errno |-> 0], [fd |-> 3, errno |-> 0]}
\* the system call that fails in a call, if any: one of the ioctls
\* RTC_RD_TIME, RTC_ALM_SET, RTC_AIE_ON (with EINVAL), or the blocking read
\* (which then returns -1 instead of sizeof(unsigned long))
RtcFailures == {"none", "RTC_RD_TIME", "RTC_ALM_SET", "RTC_AIE_ON", "read"}
Ioctl(req, fail) == IF fail = req THEN EINVAL ELSE 0
SizeofLong == 8
\* the outcomes of the read(2) calls on the clock when no signal arrives
ReadRun(fail) == IF fail = "read" THEN <<-EIO>> ELSE <<SizeofLong>>
NoRead == [outs |-> <<>>, calls |-> 0]

InitRtcOn(times) ==
    /\ fd_rtc = 0
    /\ rtcNow \in times
    /\ rtcAlarm = NoAlarm
    /\ rtcAie = FALSE
    /\ rtcOp = <<"none", 0, FALSE>>
    /\ rtcRet = 0
    /\ rtcRead = NoRead

\* the arithmetic of core.c:129-139 on the time read
AddSeconds(tm, seconds) ==
    LET sec0  == tm.tm_sec + seconds
        carry == sec0 >= 60
        sec   == IF carry THEN sec0 % 60 ELSE sec0
        min0  == IF carry THEN tm.tm_min + 1 ELSE tm.tm_min
        wrapm == min0 = 60
        min   == IF wrapm THEN 0 ELSE min0
        hour0 == IF wrapm THEN tm.tm_hour + 1 ELSE tm.tm_hour
        hour  == IF hour0 = 24 THEN 0 ELSE hour0
    IN  Time(hour, min, sec)

\* int syspower_rtc_wakealarm(unsigned int seconds, bool wait)
\* o: the outcome of open(2) if it is called; fail: the ioctl that fails;
\* outs: the outcomes of the read(2) calls of the wait
syspower_rtc_wakealarm(seconds, wait, o, fail, outs) ==
    LET op  == open_once(fd_rtc, o, 0)
        rd  == Ioctl("RTC_RD_TIME", fail)
        set == Ioctl("RTC_ALM_SET", fail)
        aie == Ioctl("RTC_AIE_ON", fail)
        blk == READ_RETRY(outs, op.errno)
        waited == op.ret = 0 /\ rd = 0 /\ set = 0 /\ aie = 0 /\ wait
    IN  /\ rtcOp' = <<"wakealarm", seconds, wait>>
        /\ fd_rtc' = op.fd
        /\ rtcRead' = IF waited THEN [outs |-> outs, calls |-> blk.calls] ELSE NoRead
        /\ IF op.ret # 0
           THEN /\ rtcRet' = op.ret
                /\ UNCHANGED <<rtcAlarm, rtcAie>>
           ELSE IF rd # 0
           THEN /\ rtcRet' = -rd
                /\ UNCHANGED <<rtcAlarm, rtcAie>>
           ELSE IF set # 0
           THEN /\ rtcRet' = -set
                /\ UNCHANGED <<rtcAlarm, rtcAie>>
           ELSE /\ rtcAlarm' = AddSeconds(rtcNow, seconds)
                /\ IF aie # 0
                   THEN /\ rtcRet' = -aie
                        /\ UNCHANGED rtcAie
                   ELSE /\ rtcAie' = TRUE
                        /\ rtcRet' = IF wait THEN blk.ret ELSE 0
        /\ UNCHANGED rtcNow
        /\ UNCHANGED exceptRtc

\* no signal arrives during the wait
NextRtc ==
    \E seconds \in Delays, wait \in BOOLEAN, o \in RtcOpens, fail \in RtcFailures :
        syspower_rtc_wakealarm(seconds, wait, o, fail, ReadRun(fail))

\* ---- claim on the alarm arithmetic ----

\* h:m:s as seconds since midnight, and back
ToSeconds(tm) == (tm.tm_hour * 60 + tm.tm_min) * 60 + tm.tm_sec
FromSeconds(n) == Time(n \div 3600, (n \div 60) % 60, n % 60)

\* C9: for every clock time and every delay below 24 hours, the alarm time
\* syspower_rtc_wakealarm programs is the clock time plus the delay, modulo 24
\* hours, with seconds and minutes in 0..59 and hours in 0..23.
C9_AlarmExact ==
    (rtcOp[1] = "wakealarm" /\ rtcRet = 0) =>
        /\ rtcAlarm = FromSeconds((ToSeconds(rtcNow) + rtcOp[2]) % SecondsPerDay)
        /\ rtcAlarm.tm_sec \in 0..59
        /\ rtcAlarm.tm_min \in 0..59
        /\ rtcAlarm.tm_hour \in 0..23

(***************************************************************************)
(* 6. Power-supply capacity (core.c:642-673)                               *)
(***************************************************************************)

ENODATA == 61

\* the attribute files the three calls read
CapacityFiles == {"capacity", "capacity_alert_min", "capacity_alert_max"}
\* the numbers an attribute may hold
CapacityValues == {0, 9, 10, 100, 255, 256}
NoValue == -1

DigitChars == <<"0", "1", "2", "3", "4", "5", "6", "7", "8", "9">>

\* the kernel's "%d\n" of a number that is not negative
RECURSIVE Decimal(_)
Decimal(n) ==
    IF n < 10 THEN <<DigitChars[n + 1]>>
    ELSE Decimal(n \div 10) \o <<DigitChars[(n % 10) + 1]>>

SupplyShow(v) == IF v = NoValue THEN NoFile ELSE FileOf(Decimal(v) \o <<NL>>)

\* atoi: white space, an optional sign, then digits up to the first other byte
IsDigit(c) == \E d \in 1..10 : DigitChars[d] = c
DigitOf(c) == (CHOOSE d \in 1..10 : DigitChars[d] = c) - 1

RECURSIVE AtoiFrom(_, _, _)
AtoiFrom(str, i, acc) ==
    IF i > Len(str) \/ ~IsDigit(str[i]) THEN acc
    ELSE AtoiFrom(str, i + 1, acc * 10 + DigitOf(str[i]))

RECURSIVE SkipSpace(_, _)
SkipSpace(str, i) ==
    IF i <= Len(str) /\ str[i] \in {" ", "\t", NL} THEN SkipSpace(str, i + 1) ELSE i

atoi(str) ==
    LET i == SkipSpace(str, 1)
    IN  IF i <= Len(str) /\ str[i] = "-" THEN -AtoiFrom(str, i + 1, 0)
        ELSE IF i <= Len(str) /\ str[i] = "+" THEN AtoiFrom(str, i + 1, 0)
        ELSE AtoiFrom(str, i, 0)

\* (uint8_t)x
ToUint8(x) == x % 256

InitSupplyOn(attrs) ==
    /\ supplyAttr \in attrs
    /\ supplyOp = <<"none", 0>>
    /\ supplyRet = 0

\* char attr[8] = "255"; __read_attribute(attr, path, file); return (uint8_t)atoi(attr);
\* CapacityOf_unread is the variant whose read leaves the buffer as it was.
CapacityOf_unread(file, io) ==
    ToUint8(atoi(CStr(CharArray(<<"2", "5", "5">>, 8))))

CapacityOf(file, io) ==
    LET attr == CharArray(<<"2", "5", "5">>, 8)
        r    == read_attribute(attr, SupplyShow(supplyAttr[file]), io)
    IN  ToUint8(atoi(CStr(r.value)))

SupplyCall(op, file, io) ==
    /\ supplyOp' = <<op, io>>
    /\ supplyRet' = CapacityOf(file, io)
    /\ UNCHANGED supplyAttr
    /\ UNCHANGED exceptSupply

\* uint8_t syspower_supply_capacity(const char *supplyname)
syspower_supply_capacity(io) == SupplyCall("capacity", "capacity", io)

\* uint8_t syspower_supply_capacity_min(const char *supplyname)
syspower_supply_capacity_min(io) == SupplyCall("capacity_min", "capacity_alert_min", io)

\* uint8_t syspower_supply_capacity_max(const char *supplyname)
syspower_supply_capacity_max(io) == SupplyCall("capacity_max", "capacity_alert_max", io)

\* the driver updates an attribute, or the attribute appears or goes away
EnvSupply(file, v) ==
    /\ v # supplyAttr[file]
    /\ supplyAttr' = [supplyAttr EXCEPT ![file] = v]
    /\ supplyOp' = <<"env", 0>>
    /\ supplyRet' = 0
    /\ UNCHANGED exceptSupply

\* the outcomes of read(2) on an attribute: 0, or the errno it fails with
SupplyReads == {0, ENODATA}

NextSupply ==
    \/ \E io \in SupplyReads : syspower_supply_capacity(io)
    \/ \E io \in SupplyReads : syspower_supply_capacity_min(io)
    \/ \E io \in SupplyReads : syspower_supply_capacity_max(io)
    \/ \E file \in CapacityFiles, v \in CapacityValues \cup {NoValue} : EnvSupply(file, v)

\* ---- claim on the capacity calls ----

\* the attribute file a call reads
FileOfCall(op) ==
    CASE op = "capacity" -> "capacity"
      [] op = "capacity_min" -> "capacity_alert_min"
      [] op = "capacity_max" -> "capacity_alert_max"

CapacityCalls == {"capacity", "capacity_min", "capacity_max"}

CurrentTypes == {"max", "avg", "now"}
VoltageTypes == {"avg", "max", "min", "now"}

CurrentFile(type) ==
    CASE type = "max" -> "current_max"
      [] type = "avg" -> "current_avg"
      [] type = "now" -> "current_now"
      [] OTHER -> ""

VoltageFile(type) ==
    CASE type = "avg" -> "voltage_avg"
      [] type = "max" -> "voltage_max"
      [] type = "min" -> "voltage_min"
      [] type = "now" -> "voltage_now"
      [] OTHER -> ""

CurrentFiles == {CurrentFile(t) : t \in CurrentTypes}
VoltageFiles == {VoltageFile(t) : t \in VoltageTypes}

\* the numbers of microamperes / microvolts an attribute may hold: one below
\* a thousand, and a negative one (a battery that discharges shows a negative
\* current)
MicroValues == {999, -2500000}

\* the kernel's "%d\n" of a number
SignedShow(v) ==
    IF v = NoValue THEN NoFile
    ELSE IF v < 0 THEN FileOf(<<"-">> \o Decimal(-v) \o <<NL>>)
    ELSE FileOf(Decimal(v) \o <<NL>>)

\* the division of C: the quotient is truncated toward zero
CDiv(a, b) == IF a >= 0 THEN a \div b ELSE -((-a) \div b)

\* char attr[10] = "0"; ret = __read_attribute(attr, path, file);
\* if (ret) return ret;  -- then atoi(attr) / 1000.
\* Gives the value returned when the read fails, and the quotient otherwise.
\* MilliOf_seed is the variant without the test of ret: it goes on to parse
\* the buffer, which still holds "0".
MilliOf_seed(file, io) ==
    LET attr == CharArray(<<"0">>, 10)
        r    == read_attribute(attr, SignedShow(supplyAttr[file]), io)
    IN  [ret |-> 0, milli |-> CDiv(atoi(CStr(r.value)), 1000)]

MilliOf(file, io) ==
    LET attr == CharArray(<<"0">>, 10)
        r    == read_attribute(attr, SignedShow(supplyAttr[file]), io)
    IN  IF r.ret # 0 THEN [ret |-> r.ret, milli |-> 0]
        ELSE [ret |-> 0, milli |-> CDiv(atoi(CStr(r.value)), 1000)]

\* int syspower_supply_current(supplyname, current_type): a type that is no
\* case of the switch gives -EINVAL; a failed read gives its error; otherwise
\* the milliamperes, without their sign
syspower_supply_current(type, io) ==
    LET file == CurrentFile(type)
        m    == MilliOf(file, io)
    IN  /\ supplyOp' = <<IF file = "" THEN "current_other" ELSE file, io>>
        /\ supplyRet' = IF file = "" THEN -EINVAL
                        ELSE IF m.ret # 0 THEN m.ret
                        ELSE IF m.milli < 0 THEN -m.milli
                        ELSE m.milli
        /\ UNCHANGED supplyAttr
        /\ UNCHANGED exceptSupply

\* int syspower_supply_voltage(supplyname, voltage_type)
syspower_supply_voltage(type, io) ==
    LET file == VoltageFile(type)
        m    == MilliOf(file, io)
    IN  /\ supplyOp' = <<IF file = "" THEN "voltage_other" ELSE file, io>>
        /\ supplyRet' = IF file = "" THEN -EINVAL
                        ELSE IF m.ret # 0 THEN m.ret
                        ELSE m.milli
        /\ UNCHANGED supplyAttr
        /\ UNCHANGED exceptSupply

NextSupplyMilli ==
    \/ \E type \in CurrentTypes \cup {"other"}, io \in SupplyReads :
         syspower_supply_current(type, io)
    \/ \E type \in VoltageTypes \cup {"other"}, io \in SupplyReads :
         syspower_supply_voltage(type, io)
    \/ \E file \in CurrentFiles \cup VoltageFiles, v \in MicroValues \cup {NoValue} :
         EnvSupply(file, v)

\* ---- claim on the current and voltage calls ----

\* the attribute of the last call cannot be read: the file is absent, or
\* read(2) on it fails
Unreadable == supplyAttr[supplyOp[1]] = NoValue \/ supplyOp[2] # 0

\* C11 (as stated): syspower_supply_current and syspower_supply_voltage, called
\* with a valid type on a supply whose attribute cannot be read, return 0, the
\* value of the "0" the buffer is seeded with.
C11_SeedOnFailure ==
    (supplyOp[1] \in CurrentFiles \cup VoltageFiles /\ Unreadable) => supplyRet = 0

\* C11 (amended): called with a valid type on a supply whose attribute cannot
\* be read, the two calls return the error of the read, a negative number:
\* -ENOTSUP when the file is absent, minus the errno of read(2) otherwise; the
\* "0" seed is returned in no case.  When the attribute is read, current
\* returns the absolute value of the number divided by 1000 and voltage the
\* number divided by 1000.
C11_ReadErrorReturned ==
    (supplyOp[1] \in CurrentFiles \cup VoltageFiles) =>
        LET v == supplyAttr[supplyOp[1]]
            abs == IF v < 0 THEN -v ELSE v
        IN  /\ v = NoValue => supplyRet = -ENOTSUP
            /\ (v # NoValue /\ supplyOp[2] # 0) => supplyRet = -supplyOp[2]
            /\ Unreadable => supplyRet < 0
            /\ (~Unreadable /\ supplyOp[1] \in CurrentFiles) => supplyRet = abs \div 1000
            /\ (~Unreadable /\ supplyOp[1] \in VoltageFiles /\ v >= 0) =>
                  supplyRet = v \div 1000

\* syspower_supply_voltage on a supply without voltage_now returned -ENOTSUP
\* while its current_now holds a number
C11_Witness ==
    /\ supplyOp = <<"voltage_now", 0>>
    /\ supplyAttr["voltage_now"] = NoValue
    /\ supplyAttr["current_now"] = -2500000
    /\ supplyRet = -ENOTSUP

(***************************************************************************)
(* 8. The blocking calls under signals (core.c:79-99, 151, 204)            *)
(***************************************************************************)

\* syspower_suspend, and syspower_rtc_wakealarm on a clock that opens and
\* takes every ioctl, while signals interrupt the blocking write and read
NextBlock ==
    \/ \E arg \in TypeArgs : \E outs \in WriteRuns(LenOf(arg)) :
         syspower_suspend(arg, outs)
    \/ \E seconds \in {30}, wait \in BOOLEAN, outs \in Runs({SizeofLong, -EIO}) :
         syspower_rtc_wakealarm(seconds, wait, [fd |-> 3, errno |-> 0], "none", outs)

\* the calls of a run that a signal interrupted, and the outcome of its last
Leading(outs) == Cardinality({k \in 1..Len(outs) : outs[k] = -EINTR})
Last(outs) == outs[Len(outs)]
AsReturned(o) == IF o < 0 THEN -1 ELSE o

\* C14 (as stated): when a signal interrupts the blocking write of
\* syspower_suspend or the blocking read of syspower_rtc_wakealarm, the call
\* returns with an error after that one system call.
C14_ReturnsEarly ==
    /\ (sleepOp[1] = "suspend" /\ Wrote(sleepWrite) /\ Leading(sleepWrite.outs) > 0) =>
          (sleepWrite.calls = 1 /\ sleepRet < 0)
    /\ (rtcRead # NoRead /\ Leading(rtcRead.outs) > 0) =>
          (rtcRead.calls = 1 /\ rtcRet < 0)

\* C14 (amended): when a signal interrupts the blocking write of
\* syspower_suspend or the blocking read of syspower_rtc_wakealarm, the library
\* issues the system call again, once per interruption, and the call returns
\* only with the outcome of the first system call that is not interrupted:
\* suspend returns 0 when that write took every byte, wakealarm returns what
\* that read returned.
C14_Reissued ==
    /\ (sleepOp[1] = "suspend" /\ Wrote(sleepWrite)) =>
          /\ sleepWrite.calls = Leading(sleepWrite.outs) + 1
          /\ sleepWrite.out = AsReturned(Last(sleepWrite.outs))
          /\ Last(sleepWrite.outs) = sleepWrite.len => sleepRet = 0
          /\ Last(sleepWrite.outs) < 0 => sleepRet = Last(sleepWrite.outs)
    /\ rtcRead # NoRead =>
          /\ rtcRead.calls = Leading(rtcRead.outs) + 1
          /\ rtcRet = AsReturned(Last(rtcRead.outs))

\* a suspend whose write was interrupted once, issued again and then taken in
\* full, after a wait on the alarm whose read went the same way
C14_Witness ==
    /\ sleepOp = <<"suspend", SYSPOWER_SLEEP_TYPE_MEM>>
    /\ Leading(sleepWrite.outs) = 1
    /\ sleepWrite.calls = 2
    /\ sleepRet = 0
    /\ Leading(rtcRead.outs) = 1
    /\ rtcRead.calls = 2
    /\ rtcRet = SizeofLong

(***************************************************************************)
(* 9. Wake locks (core.c:211-232, 264-277)                                 *)
(***************************************************************************)

LockFiles == {"wake_lock", "wake_unlock"}

\* An unsigned int is two 16-bit limbs, a uint64_t four, the low limb first.
LimbBase == 2 ^ 16
U32(hi, lo) == <<lo, hi>>
IsZero(x) == \A i \in 1..Len(x) : x[i] = 0

\* (uint64_t)x
ToUint64(x) == x \o <<0, 0>>

\* x * c in the type of x: the product modulo 2^(16 * Len(x))
RECURSIVE MulFrom(_, _, _, _)
MulFrom(x, c, i, carry) ==
    IF i > Len(x) THEN <<>>
    ELSE LET p == x[i] * c + carry
         IN  <<p % LimbBase>> \o MulFrom(x, c, i + 1, p \div LimbBase)
Mul(x, c) == MulFrom(x, c, 1, 0)

\* x / d and x % d, from the high limb down
RECURSIVE DivFrom(_, _, _, _)
DivFrom(x, d, i, rem) ==
    IF i = 0 THEN [q |-> <<>>, r |-> rem]
    ELSE LET cur  == rem * LimbBase + x[i]
             rest == DivFrom(x, d, i - 1, cur % d)
         IN  [q |-> rest.q \o <<cur \div d>>, r |-> rest.r]

\* sprintf "%" PRIu64: the decimal digits, the first not 0 unless the number is 0
RECURSIVE DigitsOf(_)
DigitsOf(x) ==
    IF IsZero(x) THEN <<>>
    ELSE LET dm == DivFrom(x, 10, Len(x), 0)
         IN  DigitsOf(dm.q) \o <<DigitChars[dm.r + 1]>>
PRIu64(x) == IF IsZero(x) THEN <<"0">> ELSE DigitsOf(x)

\* (uint64_t)timeout_ms * 1000 * 1000
\* timeout_ns_narrow is the variant without the cast: the product is computed
\* in unsigned int and then widened.
timeout_ns_narrow(timeout_ms) == ToUint64(Mul(Mul(timeout_ms, 1000), 1000))

timeout_ns(timeout_ms) == Mul(Mul(ToUint64(timeout_ms), 1000), 1000)

\* the request line sprintf leaves in buf
LockLine(name, timeout_ms) ==
    IF ~IsZero(timeout_ms)
    THEN name \o <<" ">> \o PRIu64(timeout_ns(timeout_ms)) \o <<NL>>
    ELSE name \o <<NL>>

NoLockWrite == [file |-> "", buf |-> <<>>, len |-> 0, out |-> 0]

InitLock ==
    /\ lock_fd = [f \in LockFiles |-> 0]
    /\ lockOp = <<"none", <<>>, U32(0, 0)>>
    /\ lockRet = 0
    /\ lockWrite = NoLockWrite

\* the body the two calls share: open the file once, write the string and its
\* terminating NUL, compare the count.  When __open_once fails the call returns
\* -errno if asErrno, the result of __open_once if not.
LockFileWrite(op, name, timeout_ms, file, str, outs, asErrno) ==
    LET o   == open_once(lock_fd[file], OPEN_RETRY(file, openFds, errno), errno)
        len == Len(str) + 1
        w   == WRITE_RETRY(outs, o.errno)
    IN  /\ lockOp' = <<op, name, timeout_ms>>
        /\ lock_fd' = [lock_fd EXCEPT ![file] = o.fd]
        /\ openFds' = IF o.opened THEN openFds \cup {o.fd} ELSE openFds
        /\ IF o.ret # 0
           THEN /\ lockRet' = IF asErrno THEN -o.errno ELSE o.ret
                /\ errno' = o.errno
                /\ lockWrite' = NoLockWrite
           ELSE /\ lockRet' = IF w.ret # len THEN -w.errno ELSE 0
                /\ errno' = w.errno
                /\ lockWrite' = [file |-> file, buf |-> WithNul(str),
                                 len |-> len, out |-> w.ret]
        /\ UNCHANGED <<syspower_fd, pmFiles, autosleep, sleepOp, sleepRet, sleepPrev,
                       sleepOpened, sleepWrite>>
        /\ UNCHANGED <<monVars, wakeVars, rtcVars, supplyVars, reasonVars, thrVars, retryVars>>

\* int syspower_wake_lock(const char *name, unsigned int timeout_ms)
syspower_wake_lock(name, timeout_ms, outs) ==
    LockFileWrite("wake_lock", name, timeout_ms, "wake_lock",
                  LockLine(name, timeout_ms), outs, FALSE)

\* int syspower_wake_unlock(const char *name)
syspower_wake_unlock(name, outs) ==
    LockFileWrite("wake_unlock", name, U32(0, 0), "wake_unlock", name, outs, TRUE)

\* the arguments of the calls: two names; no timeout, the least, one whose
\* nanoseconds pass 2^32, and UINT_MAX
LockNames == {<<"a">>, <<"m", "y">>}
Timeouts == {U32(0, 0), U32(0, 1), U32(0, 4295), U32(65535, 65535)}

NextLock ==
    \/ \E name \in LockNames, t \in Timeouts :
         \E outs \in WriteRuns(Len(LockLine(name, t)) + 1) : syspower_wake_lock(name, t, outs)
    \/ \E name \in LockNames :
         \E outs \in WriteRuns(Len(name) + 1) : syspower_wake_unlock(name, outs)

\* ---- claim on the wake locks ----

\* six zeros: a number of milliseconds written in nanoseconds
SixZeros == <<"0", "0", "0", "0", "0", "0">>

\* C16: the string syspower_wake_lock writes is the name and a newline when
\* timeout_ms is 0, and otherwise the name, a space, timeout_ms * 1000000 in
\* decimal (the digits of timeout_ms followed by six zeros, for every unsigned
\* int) and a newline; the string syspower_wake_unlock writes is the name alone;
\* both are written with their terminating NUL, whatever was locked or unlocked
\* before: the library keeps the two descriptors and nothing else.
C16_LockLine ==
    [][/\ (lockOp'[1] = "wake_lock" /\ lockWrite' # NoLockWrite) =>
            /\ lockWrite'.file = "wake_lock"
            /\ lockWrite'.len = Len(lockWrite'.buf)
            /\ lockWrite'.buf =
                 IF IsZero(lockOp'[3])
                 THEN lockOp'[2] \o <<NL, NUL>>
                 ELSE lockOp'[2] \o <<" ">> \o PRIu64(lockOp'[3]) \o SixZeros \o <<NL, NUL>>
       /\ (lockOp'[1] = "wake_unlock" /\ lockWrite' # NoLockWrite) =>
            /\ lockWrite'.file = "wake_unlock"
            /\ lockWrite'.len = Len(lockWrite'.buf)
            /\ lockWrite'.buf = lockOp'[2] \o <<NUL>>
       /\ UNCHANGED <<syspower_fd, fd_rtc, wakeup_cache, udevmon>>]_vars

\* a lock "a" taken with the largest timeout, right after an unlock of "my",
\* a name that was never locked
C16_Witness ==
    /\ lockOp = <<"wake_lock", <<"a">>, U32(65535, 65535)>>
    /\ lockRet = 0
    /\ lockWrite.file = "wake_lock"
    /\ lockWrite.buf = <<"a", " ", "4", "2", "9", "4", "9", "6", "7", "2", "9", "5",
                         "0", "0", "0", "0", "0", "0", NL, NUL>>
    /\ lock_fd["wake_unlock"] > 0

(***************************************************************************)
(* 10. Wakeup reason (core.c:234-262)                                      *)
(***************************************************************************)

\* the interrupts of the machine, and what their actions files may show
Irqs == {0, 17}
ActionTexts == {<<"r", "t", "c", "0", NL>>, <<"a", ",", "b", NL>>}

\* the system call of syspower_wakeup_reason that fails although its file is
\* there, if any: the open or the read of pm_wakeup_irq (1), of actions (2)
ReasonFailures == {"none", "open1", "read1", "open2", "read2"}

\* a buffer the caller has not written yet
Unset == "?"
Fresh(size) == [i \in 1..size |-> Unset]

InitReasonOn(irqs, actions) ==
    /\ irqFile \in irqs
    /\ irqActions \in actions
    /\ reasonOp = <<"none", 0, "none">>
    /\ reasonRet = 0
    /\ reasonBuf = <<>>

\* read(fd, buf, size) of a file holding text: the bytes copied and the count
ReadInto(buf, text) ==
    LET n == Min(Len(buf), Len(text))
    IN  [ret |-> n, buf |-> [i \in 1..Len(buf) |-> IF i <= n THEN text[i] ELSE buf[i]]]

\* strtoll(buf, NULL, 0) on decimal digits
strtoll(buf) == atoi(buf)

\* int syspower_wakeup_reason(char *reason, size_t reason_len)
\* The value returned and the buffer, `fail` being the system call that fails.
\* The result of the last read is used only to end the string (core.c:255-257).
wakeup_reason(reason, fail) ==
    LET f1  == SupplyShow(irqFile)
        r1  == ReadInto(Fresh(128), f1.text)
        irq == strtoll(SubSeq(r1.buf, 1, r1.ret))
        f2  == IF irq \in Irqs THEN irqActions[irq] ELSE NoFile
        r2  == ReadInto(reason, f2.text)
    IN  IF ~f1.exists THEN [ret |-> -ENOTSUP, reason |-> reason]
        ELSE IF fail = "open1" THEN [ret |-> -EACCES, reason |-> reason]
        ELSE IF fail = "read1" THEN [ret |-> -ENODATA, reason |-> reason]
        ELSE IF ~f2.exists THEN [ret |-> -ENOTSUP, reason |-> reason]
        ELSE IF fail = "open2" THEN [ret |-> -EACCES, reason |-> reason]
        ELSE IF fail = "read2" THEN [ret |-> irq, reason |-> reason]
        ELSE [ret |-> irq,
              reason |-> IF r2.ret > 0 THEN [r2.buf EXCEPT ![r2.ret] = NUL] ELSE r2.buf]

syspower_wakeup_reason(reason_len, fail) ==
    LET r == wakeup_reason(Fresh(reason_len), fail)
    IN  /\ reasonOp' = <<"wakeup_reason", reason_len, fail>>
        /\ reasonRet' = r.ret
        /\ reasonBuf' = r.reason
        /\ UNCHANGED <<irqFile, irqActions>>
        /\ UNCHANGED <<monVars, wakeVars, sleepVars, rtcVars, supplyVars, lockVars, thrVars, retryVars>>

\* the system resumes on another interrupt, or a driver changes its actions
EnvReason ==
    /\ \E n \in Irqs \cup {NoValue} : irqFile' = n
    /\ \E a \in [Irqs -> {FileOf(t) : t \in ActionTexts} \cup {NoFile}] : irqActions' = a
    /\ <<irqFile', irqActions'>> # <<irqFile, irqActions>>
    /\ reasonOp' = <<"env", 0, "none">>
    /\ reasonRet' = 0
    /\ reasonBuf' = <<>>
    /\ UNCHANGED <<monVars, wakeVars, sleepVars, rtcVars, supplyVars, lockVars, thrVars, retryVars>>

NextReason ==
    \/ \E reason_len \in {3, 8}, fail \in ReasonFailures :
         syspower_wakeup_reason(reason_len, fail)
    \/ EnvReason

\* ---- claim on the wakeup reason ----

\* the four stages of the last call all succeeded
AllStagesPassed ==
    /\ irqFile # NoValue
    /\ irqActions[irqFile].exists
    /\ reasonOp[3] = "none"

\* C17: syspower_wakeup_reason returns a negative error whenever one of its
\* four stages fails (the open or the read of pm_wakeup_irq, the open or the
\* read of the actions file), and returns the IRQ number, which is not
\* negative, exactly when all four succeeded.
C17_ReasonStages ==
    reasonOp[1] = "wakeup_reason" =>
        /\ ~AllStagesPassed => reasonRet < 0
        /\ AllStagesPassed => reasonRet = irqFile

(***************************************************************************)
(* 11. Two threads in the library (core.c:384-455, 695-738)                *)
(***************************************************************************)

\* The calls of section 1 and 3 again, one memory access of the shared state
\* (syspower.wakeup_cache, udevmon, the reference counts) per step, so that the
\* steps of two threads interleave.  Nothing in core.c takes a lock.
\* The program the threads run uses the table first and the monitor afterwards:
\* no call on the table starts once the monitor is in use.

Threads == {1, 2}
Other(t) == 3 - t

CachePcs == {"memset", "probe", "store", "recheck", "walk", "index"}
MonPcs == {"ref_load", "ref_store", "new", "unref_store"}

\* the order readdir gives in these runs
ConcOrder == [linkFirst |-> TRUE, ascending |-> TRUE]
\* the arguments of the calls
ConcNames == {basename(1)}
ConcIndexes == {0}

\* calls of syspower_supply_get_monitorfd a thread makes
MaxGets == 1

NoLocals == [name |-> "", index |-> 0, isGet |-> FALSE, cands |-> <<>>, i |-> 0,
             seen |-> NULL, r |-> 0, fd |-> -1, gets |-> 0]

InitThr ==
    /\ pc = [t \in Threads |-> "idle"]
    /\ loc = [t \in Threads |-> NoLocals]
    /\ hist = [racedCache |-> FALSE, racedMon |-> FALSE,
               tornRead |-> FALSE, lostUpdate |-> FALSE]

\* the variables of sections 1 and 3 that record the last call of a single
\* caller, and the device tree: the threads leave them alone
wakeRest == <<drvLink, wakeAttr, wakeOp, wakeRet, wakeName, wakeScanned, wakeCb,
              wakeOpens, wakeNullDeref, wakeOob, crashed>>
monRest == <<monOp, monRet, monRecv>>
CacheStepRest == <<monVars, wakeRest, sleepVars, rtcVars, supplyVars, lockVars, reasonVars,
                   retryVars>>
MonStepRest == <<wakeVars, monRest, sleepVars, rtcVars, supplyVars, lockVars, reasonVars,
                 retryVars>>

\* the devices a scan of the tree admits
Admits(n) == drvLink[n] /\ wakeAttr[n] # Absent
AdmittedDevs == {n \in Devs : Admits(n)}

\* ---- lookup and enumeration ----

\* a call returns: to "idle"; `torn` tells that it read an empty slot where a
\* table built from the tree holds an entry
Return(t, torn) ==
    /\ pc' = [pc EXCEPT ![t] = "idle"]
    /\ hist' = [hist EXCEPT !.tornRead = @ \/ torn]

\* entry of __wakeup_source_lookup(name) or syspower_wakeup_get(index) with
\* index < WAKEDEV_COUNT: if (!syspower.wakeup_cache[0])
CacheEnter(t, name, index, isGet) ==
    /\ pc[t] = "idle"
    /\ monNew = 0 /\ pc[Other(t)] \notin MonPcs
    /\ pc' = [pc EXCEPT ![t] = IF wakeup_cache[0] = NoEntry THEN "memset"
                                ELSE IF isGet THEN "index" ELSE "recheck"]
    /\ loc' = [loc EXCEPT ![t] = [@ EXCEPT !.name = name, !.index = index,
                                           !.isGet = isGet, !.cands = <<>>, !.i = 0]]
    /\ hist' = [hist EXCEPT !.racedCache = @ \/ pc[Other(t)] \in CachePcs]
    /\ UNCHANGED wakeup_cache
    /\ UNCHANGED CacheStepRest

thread_lookup(t, name) == CacheEnter(t, name, 0, FALSE)
thread_wakeup_get(t, index) == CacheEnter(t, "", index, TRUE)

\* __wakeup_cache_update: memset; the walk of the tree touches no shared state
\* and is taken with it
cache_memset(t) ==
    /\ pc[t] = "memset"
    /\ wakeup_cache' = EmptyCache
    /\ loc' = [loc EXCEPT ![t].cands = ScanCalls(ConcOrder)]
    /\ pc' = [pc EXCEPT ![t] = "probe"]
    /\ UNCHANGED hist
    /\ UNCHANGED CacheStepRest

\* __syspower_new_device up to the test of i: the filter, then
\* while (syspower.wakeup_cache[i]) i++;
new_device_probe(t) ==
    /\ pc[t] = "probe"
    /\ IF loc[t].cands = <<>>
       THEN /\ pc' = [pc EXCEPT ![t] = IF loc[t].isGet THEN "index" ELSE "recheck"]
            /\ UNCHANGED loc
       ELSE LET n == DirOfPath(Head(loc[t].cands))
                r == read_attribute(CharArray(<<>>, 9), WakeupFile(n), 0)
                i == FirstFree(wakeup_cache)
            IN  IF r.ret # 0 \/ i >= WAKEDEV_COUNT
                THEN /\ loc' = [loc EXCEPT ![t].cands = Tail(@)]
                     /\ UNCHANGED pc
                ELSE /\ loc' = [loc EXCEPT ![t].i = i]
                     /\ pc' = [pc EXCEPT ![t] = "store"]
    /\ UNCHANGED <<wakeup_cache, hist>>
    /\ UNCHANGED CacheStepRest

\* syspower.wakeup_cache[i] = malloc(...), and the entry filled
new_device_store(t) ==
    /\ pc[t] = "store"
    /\ wakeup_cache' = [wakeup_cache EXCEPT
                          ![loc[t].i] = Entry(DirOfPath(Head(loc[t].cands)))]
    /\ loc' = [loc EXCEPT ![t].cands = Tail(@)]
    /\ pc' = [pc EXCEPT ![t] = "probe"]
    /\ UNCHANGED hist
    /\ UNCHANGED CacheStepRest

\* if (!syspower.wakeup_cache[0]) return NULL;
lookup_recheck(t) ==
    /\ pc[t] = "recheck"
    /\ IF wakeup_cache[0] = NoEntry
       THEN Return(t, \E n \in AdmittedDevs : basename(n) = loc[t].name)
       ELSE /\ pc' = [pc EXCEPT ![t] = "walk"]
            /\ UNCHANGED hist
    /\ loc' = [loc EXCEPT ![t].i = 0]
    /\ UNCHANGED wakeup_cache
    /\ UNCHANGED CacheStepRest

\* one turn of while (syspower.wakeup_cache[i]) { strcmp; i++ }: what the read
\* of slot i gives.  WalkRead_skip is the variant that passes over a match.
WalkRead_skip(cache, name, i) ==
    IF i >= WAKEDEV_COUNT \/ cache[i] = NoEntry THEN "null"
    ELSE "next"

WalkRead(cache, name, i) ==
    IF i >= WAKEDEV_COUNT \/ cache[i] = NoEntry THEN "null"
    ELSE IF cache[i].name = name THEN "hit"
    ELSE "next"

lookup_walk(t) ==
    /\ pc[t] = "walk"
    /\ LET rd == WalkRead(wakeup_cache, loc[t].name, loc[t].i)
       IN  IF rd = "next"
           THEN /\ loc' = [loc EXCEPT ![t].i = @ + 1]
                /\ UNCHANGED <<pc, hist>>
           ELSE /\ Return(t, rd = "null" /\ \E n \in AdmittedDevs : basename(n) = loc[t].name)
                /\ UNCHANGED loc
    /\ UNCHANGED wakeup_cache
    /\ UNCHANGED CacheStepRest

\* return syspower.wakeup_cache[index]->name;
get_index(t) ==
    /\ pc[t] = "index"
    /\ Return(t, /\ wakeup_cache[loc[t].index] = NoEntry
                 /\ loc[t].index < Min(Cardinality(AdmittedDevs), WAKEDEV_COUNT))
    /\ UNCHANGED <<loc, wakeup_cache>>
    /\ UNCHANGED CacheStepRest

\* ---- the monitor ----

\* a monitor call returns, with the descriptor `fd` in the caller's hands
\* (-1: none); `lost` tells that its store overwrote one made since it read
MonReturn(t, fd, lost) ==
    /\ pc' = [pc EXCEPT ![t] = "idle"]
    /\ loc' = [loc EXCEPT ![t].fd = fd]
    /\ hist' = [hist EXCEPT !.lostUpdate = @ \/ lost]
    /\ monHeld' = [m \in Monitors |->
                     monHeld[m] + (IF fd = udev_monitor_get_fd(m) THEN 1 ELSE 0)
                                - (IF loc[t].fd = udev_monitor_get_fd(m) THEN 1 ELSE 0)]

\* syspower_supply_get_monitorfd: if (udevmon)
thread_get_monitorfd(t) ==
    /\ pc[t] = "idle"
    /\ pc[Other(t)] \notin CachePcs
    /\ loc[t].fd < 0
    /\ loc[t].gets < MaxGets
    /\ loc' = [loc EXCEPT ![t].gets = @ + 1]
    /\ pc' = [pc EXCEPT ![t] = IF udevmon # NULL THEN "ref_load" ELSE "new"]
    /\ hist' = [hist EXCEPT !.racedMon = @ \/ pc[Other(t)] \in MonPcs]
    /\ UNCHANGED <<udevmon, monRef, udevRef, monNew, monHeld, monFilter>>
    /\ UNCHANGED MonStepRest

\* udev_ref(udev_monitor_get_udev(udevmon)), and udev_monitor_ref(udevmon) up
\* to the read of the count; both do nothing on NULL, and the call then returns
\* udev_monitor_get_fd(NULL)
monitor_ref_load(t) ==
    /\ pc[t] = "ref_load"
    /\ IF udevmon = NULL
       THEN /\ MonReturn(t, -1, FALSE)
            /\ UNCHANGED udevRef
       ELSE /\ udevRef' = [udevRef EXCEPT ![udevmon] = @ + 1]
            /\ loc' = [loc EXCEPT ![t] = [@ EXCEPT !.seen = udevmon, !.r = monRef[udevmon]]]
            /\ pc' = [pc EXCEPT ![t] = "ref_store"]
            /\ UNCHANGED <<hist, monHeld>>
    /\ UNCHANGED <<udevmon, monRef, monNew, monFilter>>
    /\ UNCHANGED MonStepRest

\* the count written back, udevmon = the monitor, return of its descriptor
monitor_ref_store(t) ==
    /\ pc[t] = "ref_store"
    /\ monRef' = [monRef EXCEPT ![loc[t].seen] = loc[t].r + 1]
    /\ udevmon' = loc[t].seen
    /\ MonReturn(t, udev_monitor_get_fd(loc[t].seen),
                 monRef[loc[t].seen] # loc[t].r \/ udevmon # loc[t].seen)
    /\ UNCHANGED <<udevRef, monNew, monFilter>>
    /\ UNCHANGED MonStepRest

\* udev_new, udevmon = udev_monitor_new_from_netlink(...), the filter, return
\* of its descriptor
monitor_new(t) ==
    /\ pc[t] = "new"
    /\ monNew < MaxMon
    /\ monNew' = monNew + 1
    /\ monFilter' = [monFilter EXCEPT ![monNew + 1] = "power_supply"]
    /\ udevRef' = [udevRef EXCEPT ![monNew + 1] = 1]
    /\ monRef' = [monRef EXCEPT ![monNew + 1] = 1]
    /\ udevmon' = monNew + 1
    /\ MonReturn(t, udev_monitor_get_fd(monNew + 1), udevmon # NULL)
    /\ UNCHANGED MonStepRest

\* syspower_supply_put_monitorfd(fd), fd >= 0: udev_unref, and
\* udev_monitor_unref(udevmon) up to the read of the count
thread_put_monitorfd(t) ==
    /\ pc[t] = "idle"
    /\ loc[t].fd >= 0
    /\ hist' = [hist EXCEPT !.racedMon = @ \/ pc[Other(t)] \in MonPcs]
    /\ IF udevmon = NULL
       THEN /\ pc' = pc
            /\ loc' = [loc EXCEPT ![t].fd = -1]
            /\ monHeld' = [monHeld EXCEPT ![MonOfFd(loc[t].fd)] = @ - 1]
            /\ UNCHANGED udevRef
       ELSE /\ udevRef' = [udevRef EXCEPT ![udevmon] = @ - 1]
            /\ loc' = [loc EXCEPT ![t] = [@ EXCEPT !.seen = udevmon, !.r = monRef[udevmon]]]
            /\ pc' = [pc EXCEPT ![t] = "unref_store"]
            /\ UNCHANGED monHeld
    /\ UNCHANGED <<udevmon, monRef, monNew, monFilter>>
    /\ UNCHANGED MonStepRest

\* the count written back, udevmon = NULL
monitor_unref_store(t) ==
    /\ pc[t] = "unref_store"
    /\ monRef' = [monRef EXCEPT ![loc[t].seen] = loc[t].r - 1]
    /\ udevmon' = NULL
    /\ MonReturn(t, -1, monRef[loc[t].seen] # loc[t].r)
    /\ UNCHANGED <<udevRef, monNew, monFilter>>
    /\ UNCHANGED MonStepRest

NextConc ==
    \E t \in Threads :
        \/ \E name \in ConcNames : thread_lookup(t, name)
        \/ \E index \in ConcIndexes : thread_wakeup_get(t, index)
        \/ cache_memset(t)
        \/ new_device_probe(t)
        \/ new_device_store(t)
        \/ lookup_recheck(t)
        \/ lookup_walk(t)
        \/ get_index(t)
        \/ thread_get_monitorfd(t)
        \/ monitor_ref_load(t)
        \/ monitor_ref_store(t)
        \/ monitor_new(t)
        \/ thread_put_monitorfd(t)
        \/ monitor_unref_store(t)

\* ---- claim on concurrency ----

\* C19: the library is unsafe when two threads use it without a lock of their
\* own.  A lookup or an enumeration reads an empty slot where the table built
\* from the tree holds an entry, the other thread having cleared the table or
\* filled it in part, and a get or a put of the monitor overwrites the update
\* the other thread made to the reference state: both are reached (C19_Witness),
\* and neither happens before two calls on the same state have overlapped.
C19_UnsafeWhenOverlapping ==
    /\ hist.tornRead => hist.racedCache
    /\ hist.lostUpdate => hist.racedMon

\* both threads back from their calls: one read the table while the other was
\* rebuilding it; both found udevmon NULL and created a monitor, and the store
\* of the second replaced the first, whose descriptor a thread still holds
C19_Witness ==
    /\ \A t \in Threads : pc[t] = "idle"
    /\ hist.tornRead
    /\ hist.lostUpdate
    /\ udevmon # NULL
    /\ \E t \in Threads :
         /\ loc[t].fd >= 0
         /\ loc[t].fd # udev_monitor_get_fd(udevmon)
         /\ MonOpen(MonOfFd(loc[t].fd))
         /\ loc[Other(t)].fd = udev_monitor_get_fd(udevmon)

(***************************************************************************)
(* 12. The retry loops, one system call at a time (core.c:64-99)           *)
(***************************************************************************)

\* signals that may arrive while one loop runs
MaxSignals == 2

Macros == {"OPEN_RETRY", "READ_RETRY", "WRITE_RETRY"}

NoLoop == [macro |-> "", err |-> 0, calls |-> 0, outs |-> <<>>, ret |-> 0]

InitRetry ==
    /\ retryPc = "idle"
    /\ retry = NoLoop
    /\ signals = 0

\* what open(2), read(2) and write(2) give when no signal interrupts them: a
\* descriptor, a count of bytes, or -errno
SyscallOutcomes(macro) ==
    IF macro = "OPEN_RETRY" THEN {FdBase, -ENOENT, -EMFILE}
    ELSE IF macro = "READ_RETRY" THEN {0, SizeofLong, -EIO}
    ELSE WriteOutcomes(SizeofLong)

\* while (ret == -1 && errno == EINTR)
\* Again_failed is the variant that tests the return value alone.
Again_failed(ret, err) == ret = -1

Again(ret, err) == ret = -1 /\ err = EINTR

\* the rest of the process, which a loop leaves alone
retryRest == <<monVars, wakeVars, rtcVars, supplyVars, lockVars, reasonVars, thrVars,
               syspower_fd, openFds, pmFiles, autosleep, sleepOp, sleepRet, sleepPrev,
               sleepOpened, sleepWrite>>

\* the thread gets to one of the macros; errno is what the calls before left
\* in it, and up to MaxSignals signals are to arrive before the macro returns
RetryEnter(macro, sigs) ==
    /\ retryPc \in {"idle", "done"}
    /\ retryPc' = "call"
    /\ retry' = [NoLoop EXCEPT !.macro = macro, !.err = errno]
    /\ signals' = sigs
    /\ UNCHANGED errno
    /\ UNCHANGED retryRest

\* one turn of the do-while: the system call, with outcome o, and the test.
\* A failed call sets errno, a successful one leaves it alone.  When the loop
\* of OPEN_RETRY is left with ENOENT, errno becomes ENOTSUP before the return.
Syscall(o) ==
    LET ret == IF o < 0 THEN -1 ELSE o
        err == IF o < 0 THEN -o ELSE errno
        again == Again(ret, err)
    IN  /\ retryPc = "call"
        /\ o = -EINTR => signals > 0
        /\ signals' = IF o = -EINTR THEN signals - 1 ELSE signals
        /\ retry' = [retry EXCEPT !.calls = @ + 1, !.outs = Append(@, o), !.ret = ret]
        /\ retryPc' = IF again THEN "call" ELSE "done"
        /\ errno' = IF ~again /\ retry.macro = "OPEN_RETRY" /\ ret = -1 /\ err = ENOENT
                    THEN ENOTSUP
                    ELSE err
        /\ UNCHANGED retryRest

\* the thread runs on: the system call of the loop it is in is issued
RetryStep == \E o \in SyscallOutcomes(retry.macro) \cup {-EINTR} : Syscall(o)

NextRetry ==
    \/ \E macro \in Macros, sigs \in 0..MaxSignals : RetryEnter(macro, sigs)
    \/ RetryStep

\* C23: a loop issues its system call again exactly when the call failed with
\* EINTR; after any other failure, and after any success, whatever errno holds
\* by then, the macro returns with the outcome of that call and issues no
\* further one; what it returns is what the macros of the sections above give
\* for the same outcomes; and once signals stop arriving every loop returns.
C23_RetryDiscipline ==
    /\ [][retryPc = "call" =>
            /\ retry'.calls = retry.calls + 1
            /\ retryPc' = "call" <=> Last(retry'.outs) = -EINTR
            /\ retryPc' = "done" <=> Last(retry'.outs) # -EINTR
            /\ retry'.ret = AsReturned(Last(retry'.outs))]_vars
    /\ [][retryPc = "done" => (retryPc' = "call" /\ retry'.calls = 0)]_vars
    /\ [](retryPc = "done" =>
            /\ retry.calls = Leading(retry.outs) + 1
            /\ retry.macro = "READ_RETRY" =>
                 READ_RETRY(retry.outs, retry.err) =
                     [ret |-> retry.ret, errno |-> errno, calls |-> retry.calls]
            /\ retry.macro = "WRITE_RETRY" =>
                 WRITE_RETRY(retry.outs, retry.err) =
                     [ret |-> retry.ret, errno |-> errno, calls |-> retry.calls])
    /\ (retryPc = "call") ~> (retryPc = "done")

\* a read interrupted twice and then served: three calls, the count of the
\* third returned, errno still EINTR
C23_Witness ==
    /\ retryPc = "done"
    /\ retry.macro = "READ_RETRY"
    /\ retry.outs = <<-EINTR, -EINTR, SizeofLong>>
    /\ retry.calls = 3
    /\ retry.ret = SizeofLong
    /\ errno = EINTR
    /\ signals = 0

(***************************************************************************)
(* Specifications                                                          *)
(***************************************************************************)

\* any set of control files; at start the standard descriptors are open, or
\* stdin is closed, or the application has left one descriptor free
InitSleep == InitSleepOn(SUBSET ControlFiles, {{0, 1, 2}, {1, 2}, 0..(MaxFd - 2)})
IdleSleep == InitSleepOn({ControlFiles}, {{0, 1, 2}})

\* the clock at any of the times chosen
InitRtc == InitRtcOn({Time(h, m, s) : h \in ClockHours, m \in ClockMinutes, s \in ClockSeconds})
IdleRtc == InitRtcOn({Time(0, 0, 0)})

\* any content of the supply's attributes
InitSupply == InitSupplyOn([CapacityFiles -> CapacityValues \cup {NoValue}])
IdleSupply == InitSupplyOn({[f \in CapacityFiles |-> NoValue]})

\* any tree of the devices that come and go
InitWake == InitWakeOn(LinksOn(Hotplug), AttrsOn(Hotplug, {"enabled", "disabled"}))
\* any tree of all the devices: more of them than the table has slots
InitCap == InitWakeOn(LinksOn(Devs), AttrsOn(Devs, {"enabled", "disabled"}))
\* a tree without devices, for the specifications that do not touch the cache
IdleWake == InitWakeOn({[n \in Devs |-> FALSE]}, {[n \in Devs |-> Absent]})

\* the later groups idle
IdleReason == InitReasonOn({NoValue}, {[n \in Irqs |-> NoFile]})
IdleLater == InitLock /\ IdleReason /\ InitThr /\ InitRetry

InitSpecMon == InitMon /\ IdleWake /\ IdleSleep /\ IdleRtc /\ IdleSupply /\ IdleLater
SpecMon == InitSpecMon /\ [][NextMon]_vars

InitSpecWake == InitMon /\ InitWake /\ IdleSleep /\ IdleRtc /\ IdleSupply /\ IdleLater
SpecWake == InitSpecWake /\ [][NextWake]_vars

InitSpecCap == InitMon /\ InitCap /\ IdleSleep /\ IdleRtc /\ IdleSupply /\ IdleLater
SpecCap == InitSpecCap /\ [][NextCap]_vars

InitSpecSleep == InitMon /\ IdleWake /\ InitSleep /\ IdleRtc /\ IdleSupply /\ IdleLater
SpecSleep == InitSpecSleep /\ [][NextSleep]_vars

InitSpecRtc == InitMon /\ IdleWake /\ IdleSleep /\ InitRtc /\ IdleSupply /\ IdleLater
SpecRtc == InitSpecRtc /\ [][NextRtc]_vars

InitSpecSupply == InitMon /\ IdleWake /\ IdleSleep /\ IdleRtc /\ InitSupply /\ IdleLater
SpecSupply == InitSpecSupply /\ [][NextSupply]_vars

InitSpecBlock == InitMon /\ IdleWake /\ IdleSleep /\ IdleRtc /\ IdleSupply /\ IdleLater
SpecBlock == InitSpecBlock /\ [][NextBlock]_vars

\* any set of wake-lock files; the standard descriptors open, or stdin closed
InitSpecLock ==
    /\ InitMon /\ IdleWake /\ IdleRtc /\ IdleSupply
    /\ InitSleepOn(SUBSET LockFiles, {{0, 1, 2}, {1, 2}})
    /\ InitLock /\ IdleReason /\ InitThr /\ InitRetry
SpecLock == InitSpecLock /\ [][NextLock]_vars

\* two threads, on any tree of devices that can wake the system
InitSpecConc ==
    /\ InitMon
    /\ InitWakeOn(LinksOn(Hotplug), {[n \in Devs |-> "enabled"]})
    /\ IdleSleep /\ IdleRtc /\ IdleSupply /\ IdleLater
SpecConc == InitSpecConc /\ [][NextConc]_vars

\* any wakeup interrupt and any actions files
InitSpecReason ==
    /\ InitMon /\ IdleWake /\ IdleSleep /\ IdleRtc /\ IdleSupply /\ InitLock /\ InitThr /\ InitRetry
    /\ InitReasonOn(Irqs \cup {NoValue},
                    [Irqs -> {FileOf(t) : t \in ActionTexts} \cup {NoFile}])
SpecReason == InitSpecReason /\ [][NextReason]_vars

\* a thread that goes from one retry loop to the next and is never stopped
\* for good inside one
InitSpecRetry == InitMon /\ IdleWake /\ IdleSleep /\ IdleRtc /\ IdleSupply /\ IdleLater
SpecRetry == InitSpecRetry /\ [][NextRetry]_vars /\ WF_vars(RetryStep)

\* any content of the supply's current and voltage attributes
InitSupplyMilli == InitSupplyOn([CurrentFiles \cup VoltageFiles -> MicroValues \cup {NoValue}])

InitSpecSupplyMilli == InitMon /\ IdleWake /\ IdleSleep /\ IdleRtc /\ InitSupplyMilli /\ IdleLater
SpecSupplyMilli == InitSpecSupplyMilli /\ [][NextSupplyMilli]_vars

====
